---- MODULE Spec2Model ----
(***************************************************************************)
(* Wavefront ("send-once") message propagation over an undirected graph,   *)
(* as implemented by                                                       *)
(*   MessagePropagationSimulator.simulate_propagation                      *)
(*       (src/large_network_analysis.py), impl = "large"                   *)
(*   SimpleNetworkAnalyzer.simulate_propagation                            *)
(*       (src/simple_large_network_test.py), impl = "simple"               *)
(* The two methods differ only in the condition of their while loop.       *)
(* The specification SpecAll adds                                          *)
(*   simulate_message_propagation                                          *)
(*       (src/message_propagation_visualization.py), impl = "viz"          *)
(* which keeps a per-node state array and a queue instead of two sets.     *)
(* The wall-clock fields step_time / total_time of a step record are       *)
(* readings of a clock that advances by `tick` per round; tick is 0 unless *)
(* a specification says otherwise.                                         *)
(***************************************************************************)
EXTENDS Integers, FiniteSets, Sequences

\* Largest node count for which every undirected graph is enumerated.
MaxNodes == 4

VARIABLES
    impl,             \* which function runs: "large", "simple" or "viz"
    graph,            \* adjacency: node -> set of neighbour ids
    total_nodes,      \* self.total_nodes
    origin_node,      \* the origin
    pc,               \* position in simulate_propagation
    received,         \* received (set)
    propagating,      \* propagating (set)
    new_propagating,  \* new_propagating (set)
    todo,             \* nodes of `for node in propagating` not yet visited
    step,             \* step
    steps,            \* steps (list of step_data)
    aborted,          \* the safety check fired (warning printed, break)
    received_before,  \* history: received as it was when the round began
    rounds,           \* history: one entry per completed round
    node_states,        \* viz: node_states (0 pending, 1 received, 2 propagating)
    propagation_queue,  \* viz: propagation_queue (deque, as a sequence)
    current_propagators,\* viz: current_propagators (list)
    cursor,             \* viz: index of `for propagator in current_propagators`
    propagation_steps,  \* viz: propagation_steps (list of records)
    positions,            \* gen: positions (sequence of <<x, y>>, node i at i+1)
    max_distance,         \* gen: self.max_distance / MAX_CONNECTION_DISTANCE
    distance_weight,      \* gen: self.distance_weight / DISTANCE_WEIGHT
    connections_per_node, \* gen: self.connections_per_node
    batch_size,           \* gen: BATCH_SIZE / the literal in min(1000, n)
    batch_start,          \* gen: batch_start
    batch_end,            \* gen: batch_end
    node_idx,             \* gen: i of `for i in range(batch_start, batch_end)`
    network,              \* gen: G / network (key -> list of neighbours)
    connections_added,    \* gen: connections_added / total_connections
    candidates,           \* gen: candidates of the last pass, before the cut
    neighbors,            \* gen: neighbors returned by the last pass
    visited,              \* history: the nodes passed so far, in order
    properties,           \* gen: what analyze_network_properties returned
    edges_to_rewire,      \* ring: edges_to_rewire (list of <<u, v>>)
    rng,        \* global generators: "np" / "py" -> [seed, idx of next draw]
    rng_log,    \* the stream of each <<library, seed>>, as far as it was drawn
    tick,       \* the elapsed time a reading of time.time() shows per round
    run,        \* session: number of the run in progress
    first,      \* session: what the first run returned
    order,      \* session: the order in which the passes are called
    calls       \* session: the calls of generate_positions, with results

simVars == <<received, propagating, todo, steps, aborted>>

vizVars == <<node_states, propagation_queue, current_propagators, cursor,
             propagation_steps>>

genVars == <<positions, max_distance, distance_weight, connections_per_node,
             batch_size, batch_start, batch_end, node_idx, network,
             connections_added, candidates, neighbors, visited,
             properties, edges_to_rewire>>

sessVars == <<rng, rng_log, tick, run, first, order, calls>>

vars == <<impl, graph, total_nodes, origin_node, pc, received, propagating,
          new_propagating, todo, step, steps, aborted, received_before, rounds,
          node_states, propagation_queue, current_propagators, cursor,
          propagation_steps, genVars, sessVars>>

(***************************************************************************)
(* Graphs.                                                                 *)
(***************************************************************************)
NodeIds(n) == 0 .. (n - 1)

Pairs(n) == {e \in NodeIds(n) \X NodeIds(n) : e[1] < e[2]}

\* The adjacency of the undirected graph on n nodes with edge set E.
GraphOf(n, E) ==
    [i \in NodeIds(n) |-> {j \in NodeIds(n) : <<i, j>> \in E \/ <<j, i>> \in E}]

\* 0-1-2-3-4-5-0
Cycle6 ==
    GraphOf(6,
            {<<0, 1>>, <<1, 2>>, <<2, 3>>, <<3, 4>>, <<4, 5>>, <<0, 5>>})

\* {0,1,2} and {3,4,5}, no cross edges
TwoTriangles ==
    GraphOf(6,
            {<<0, 1>>, <<1, 2>>, <<0, 2>>, <<3, 4>>, <<4, 5>>, <<3, 5>>})

Graphs ==
    {GraphOf(n, E) : <<n, E>> \in
        UNION {{<<m, F>> : F \in SUBSET Pairs(m)} : m \in 1 .. MaxNodes}}
    \cup {Cycle6, TwoTriangles}

Nodes == DOMAIN graph

(***************************************************************************)
(* simulate_propagation                                                    *)
(***************************************************************************)

\* Mutant: the loop also stops on full coverage.
LoopConditionLargeUntilCovered ==
    propagating # {} /\ Cardinality(received) < total_nodes

\* MessagePropagationSimulator: `while propagating:`
LoopConditionLarge == propagating # {}

\* SimpleNetworkAnalyzer:
\* `while propagating and len(received) < self.total_nodes:`
LoopConditionSimple ==
    propagating # {} /\ Cardinality(received) < total_nodes

LoopCondition ==
    IF impl = "simple" THEN LoopConditionSimple ELSE LoopConditionLarge

\* Mutant: the test `if neighbor not in received` is dropped.
NewlyInformedNoCheck(node) == graph[node]

\* The neighbours of `node` that pass `if neighbor not in received`.
NewlyInformed(node) == {neighbor \in graph[node] : neighbor \notin received}

\* Mutant: pending_count is taken from the wave instead of the received set.
StepDataPendingOfWave ==
    [step              |-> step,
     received_count    |-> Cardinality(received),
     propagating_count |-> Cardinality(propagating),
     pending_count     |-> total_nodes - Cardinality(propagating),
     step_time         |-> tick,
     total_time        |-> tick * (step + 1)]

\* Mutant: propagating_count counts the next wave (the nodes newly informed
\* in this round) instead of the wave that relayed in this round.
StepDataNextWave ==
    [step              |-> step,
     received_count    |-> Cardinality(received),
     propagating_count |-> Cardinality(new_propagating),
     pending_count     |-> total_nodes - Cardinality(received),
     step_time         |-> tick,
     total_time        |-> tick * (step + 1)]

\* step_data; step_time and total_time are readings of a clock that shows
\* `tick` units per round
StepData ==
    [step              |-> step,
     received_count    |-> Cardinality(received),
     propagating_count |-> Cardinality(propagating),
     pending_count     |-> total_nodes - Cardinality(received),
     step_time         |-> tick,
     total_time        |-> tick * (step + 1)]

\* Mutant: the safety check compares with >= instead of >.
SafetyCheckOffByOne(s) == s >= total_nodes

\* `if step > self.total_nodes:` evaluated after `step += 1`
SafetyCheck(s) == s > total_nodes

\* No graph is being generated.
GenIdle ==
    /\ positions = <<>>
    /\ max_distance = 0
    /\ distance_weight = 0
    /\ connections_per_node = 0
    /\ batch_size = 0
    /\ batch_start = 0
    /\ batch_end = 0
    /\ node_idx = 0
    /\ network = <<>>
    /\ connections_added = 0
    /\ candidates = <<>>
    /\ neighbors = <<>>
    /\ visited = <<>>
    /\ properties = <<>>
    /\ edges_to_rewire = <<>>

\* No session is recorded: the draws are free and the clock stands still.
SessIdle ==
    /\ rng = <<>>
    /\ rng_log = <<>>
    /\ tick = 0
    /\ run = 0
    /\ first = <<>>
    /\ order = <<>>
    /\ calls = <<>>

InitState ==
    /\ graph \in Graphs
    /\ total_nodes = Cardinality(DOMAIN graph)
    /\ origin_node \in DOMAIN graph
    /\ pc = "start"
    /\ received = {}
    /\ propagating = {}
    /\ new_propagating = {}
    /\ todo = {}
    /\ step = 0
    /\ steps = <<>>
    /\ aborted = FALSE
    /\ received_before = {}
    /\ rounds = <<>>
    /\ node_states = <<>>
    /\ propagation_queue = <<>>
    /\ current_propagators = <<>>
    /\ cursor = 1
    /\ propagation_steps = <<>>
    /\ GenIdle
    /\ SessIdle

Init ==
    /\ impl \in {"large", "simple"}
    /\ InitState

\* received = set([origin]); propagating = set([origin]); steps = []; step = 0
Begin ==
    /\ impl \in {"large", "simple"}
    /\ pc = "start"
    /\ received' = {origin_node}
    /\ propagating' = {origin_node}
    /\ steps' = <<>>
    /\ step' = 0
    /\ pc' = "while"
    /\ UNCHANGED <<impl, graph, total_nodes, origin_node, new_propagating,
                   todo, aborted, received_before, rounds, vizVars,
                   genVars, sessVars>>

\* The while test; on entry new_propagating = set() and the for loop starts.
WhileTest ==
    /\ impl \in {"large", "simple"}
    /\ pc = "while"
    /\ IF LoopCondition
       THEN /\ new_propagating' = {}
            /\ todo' = propagating
            /\ received_before' = received
            /\ pc' = "for"
       ELSE /\ pc' = "done"
            /\ UNCHANGED <<new_propagating, todo, received_before>>
    /\ UNCHANGED <<impl, graph, total_nodes, origin_node, received,
                   propagating, step, steps, aborted, rounds, vizVars,
                   genVars, sessVars>>

\* One iteration of `for node in propagating` (a set: any order), with its
\* whole inner loop over the node's neighbours.
Inform(node) ==
    /\ impl \in {"large", "simple"}
    /\ pc = "for"
    /\ node \in todo
    /\ received' = received \cup NewlyInformed(node)
    /\ new_propagating' = new_propagating \cup NewlyInformed(node)
    /\ todo' = todo \ {node}
    /\ UNCHANGED <<impl, graph, total_nodes, origin_node, pc, propagating,
                   step, steps, aborted, received_before, rounds, vizVars,
                   genVars, sessVars>>

\* After the for loop: steps.append(step_data); propagating = new_propagating;
\* step += 1; the safety check.
RecordStep ==
    /\ impl \in {"large", "simple"}
    /\ pc = "for"
    /\ todo = {}
    /\ steps' = Append(steps, StepData)
    /\ rounds' = Append(rounds, [propagating |-> propagating,
                                 before      |-> received_before,
                                 informed    |-> new_propagating])
    /\ propagating' = new_propagating
    /\ step' = step + 1
    /\ IF SafetyCheck(step')
       THEN /\ aborted' = TRUE
            /\ pc' = "done"
       ELSE /\ aborted' = aborted
            /\ pc' = "while"
    /\ UNCHANGED <<impl, graph, total_nodes, origin_node, received,
                   new_propagating, todo, received_before, vizVars,
                   genVars, sessVars>>

Next ==
    \/ Begin
    \/ WhileTest
    \/ \E node \in Nodes : Inform(node)
    \/ RecordStep

Spec == Init /\ [][Next]_vars

\* The method runs sequentially to completion: a step that can be taken is.
FairSpec == Spec /\ WF_vars(Next)

(***************************************************************************)
(* simulate_message_propagation                                            *)
(* (print and time.sleep are not modelled; nodes_sent is written once and  *)
(* never read.)                                                            *)
(***************************************************************************)

\* The elements of a sequence.
Range(q) == {q[i] : i \in 1 .. Len(q)}

\* The orders in which a set can be iterated.
Orders(S) ==
    {q \in [1 .. Cardinality(S) -> S] :
        \A i, j \in 1 .. Cardinality(S) : i # j => q[i] # q[j]}

\* np.sum(node_states > 0) and np.sum(node_states == 0)
TotalReceived(ns) == Cardinality({n \in DOMAIN ns : ns[n] > 0})

TotalPending(ns) == Cardinality({n \in DOMAIN ns : ns[n] = 0})

\* Mutant: the loop marks nothing.
MarkNothing(ns, nodeset, value) == ns

\* `for node in nodelist: node_states[node] = value`
Mark(ns, nodeset, value) ==
    [n \in DOMAIN ns |-> IF n \in nodeset THEN value ELSE ns[n]]

\* Mutant: the test `if node_states[neighbor] == 0` is dropped.
VizNewlyInformedNoCheck(propagator) == graph[propagator]

\* The neighbours that pass `if node_states[neighbor] == 0`.
VizNewlyInformed(propagator) ==
    {neighbor \in graph[propagator] : node_states[neighbor] = 0}

\* node_states = zeros; node_states[origin] = 1; queue = deque([origin]);
\* propagation_steps = []; step = 0
VizBegin ==
    /\ impl = "viz"
    /\ pc = "start"
    /\ node_states' = [n \in Nodes |-> IF n = origin_node THEN 1 ELSE 0]
    /\ propagation_queue' = <<origin_node>>
    /\ propagation_steps' = <<>>
    /\ step' = 0
    /\ pc' = "while"
    /\ UNCHANGED <<impl, graph, total_nodes, origin_node, new_propagating,
                   received_before, rounds, current_propagators, cursor,
                   simVars,
                   genVars, sessVars>>

\* The while test.  On entry: step += 1, the queue is moved to
\* current_propagators, they are marked 2, the step is recorded and the for
\* loop starts.  On exit: the final step is appended and the list returned.
VizWhileTest ==
    /\ impl = "viz"
    /\ pc = "while"
    /\ IF propagation_queue # <<>>
       THEN /\ step' = step + 1
            /\ current_propagators' = propagation_queue
            /\ propagation_queue' = <<>>
            /\ node_states' = Mark(node_states, Range(propagation_queue), 2)
            /\ propagation_steps' = Append(propagation_steps,
                   [step           |-> step',
                    node_states    |-> node_states',
                    propagators    |-> current_propagators',
                    total_received |-> TotalReceived(node_states'),
                    total_pending  |-> TotalPending(node_states')])
            /\ new_propagating' = {}
            /\ cursor' = 1
            /\ received_before' = {n \in Nodes : node_states[n] > 0}
            /\ pc' = "for"
       ELSE /\ propagation_steps' = Append(propagation_steps,
                   [step           |-> step + 1,
                    node_states    |-> node_states,
                    propagators    |-> <<>>,
                    total_received |-> total_nodes,
                    total_pending  |-> 0])
            /\ pc' = "done"
            /\ UNCHANGED <<step, current_propagators, propagation_queue,
                           node_states, new_propagating, cursor,
                           received_before>>
    /\ UNCHANGED <<impl, graph, total_nodes, origin_node, rounds, simVars,
                   genVars, sessVars>>

\* One iteration of `for propagator in current_propagators` (list order),
\* with its whole inner loop over the neighbours.
VizInform ==
    /\ impl = "viz"
    /\ pc = "for"
    /\ cursor <= Len(current_propagators)
    /\ LET newly == VizNewlyInformed(current_propagators[cursor])
       IN  /\ node_states' = Mark(node_states, newly, 1)
           /\ new_propagating' = new_propagating \cup newly
    /\ cursor' = cursor + 1
    /\ UNCHANGED <<impl, graph, total_nodes, origin_node, pc, step,
                   received_before, rounds, propagation_queue,
                   current_propagators, propagation_steps, simVars,
                   genVars, sessVars>>

\* After the for loop: propagation_queue.extend(new_propagators) (a set: any
\* order); the current propagators are marked 1 again.
VizEndRound ==
    /\ impl = "viz"
    /\ pc = "for"
    /\ cursor > Len(current_propagators)
    /\ propagation_queue' \in Orders(new_propagating)
    /\ node_states' = Mark(node_states, Range(current_propagators), 1)
    /\ rounds' = Append(rounds, [propagating |-> Range(current_propagators),
                                 before      |-> received_before,
                                 informed    |-> new_propagating])
    /\ pc' = "while"
    /\ UNCHANGED <<impl, graph, total_nodes, origin_node, step,
                   new_propagating, received_before, current_propagators,
                   cursor, propagation_steps, simVars,
                   genVars, sessVars>>

InitAll ==
    /\ impl \in {"large", "simple", "viz"}
    /\ InitState

NextAll ==
    \/ Begin
    \/ WhileTest
    \/ \E node \in Nodes : Inform(node)
    \/ RecordStep
    \/ VizBegin
    \/ VizWhileTest
    \/ VizInform
    \/ VizEndRound

SpecAll == InitAll /\ [][NextAll]_vars

(***************************************************************************)
(* simulate_propagation_with_timing                                        *)
(*       (src/propagation_timing_analysis.py), impl = "timing"             *)
(* Times are in milliseconds.                                              *)
(***************************************************************************)

MESSAGE_PROCESSING_TIME == 1

NETWORK_LATENCY == 5

\* total_time: the cumulative time of the last record.
TotalTime ==
    IF propagation_steps = <<>> THEN 0
    ELSE propagation_steps[Len(propagation_steps)].cumulative_time_ms

\* node_states = zeros; node_states[origin] = 1; queue = deque([origin]);
\* propagation_steps = []; step = 0; total_time = 0.0
TimingBegin ==
    /\ impl = "timing"
    /\ pc = "start"
    /\ node_states' = [n \in Nodes |-> IF n = origin_node THEN 1 ELSE 0]
    /\ propagation_queue' = <<origin_node>>
    /\ propagation_steps' = <<>>
    /\ step' = 0
    /\ pc' = "while"
    /\ UNCHANGED <<impl, graph, total_nodes, origin_node, new_propagating,
                   received_before, rounds, current_propagators, cursor,
                   simVars, genVars, sessVars>>

\* The while test.  On entry: step += 1, the queue is moved to
\* current_propagators, the times are computed, the step is recorded and the
\* for loop starts.  On exit the list is returned.
TimingWhileTest ==
    /\ impl = "timing"
    /\ pc = "while"
    /\ IF propagation_queue # <<>>
       THEN /\ step' = step + 1
            /\ current_propagators' = propagation_queue
            /\ propagation_queue' = <<>>
            /\ LET step_time == Len(propagation_queue)
                                    * MESSAGE_PROCESSING_TIME
                                + NETWORK_LATENCY
               IN  propagation_steps' = Append(propagation_steps,
                      [step               |-> step',
                       propagators        |-> Len(propagation_queue),
                       step_time_ms       |-> step_time,
                       cumulative_time_ms |-> TotalTime + step_time,
                       step_start_time    |-> TotalTime,
                       step_end_time      |-> TotalTime + step_time,
                       total_received     |-> TotalReceived(node_states),
                       total_pending      |-> TotalPending(node_states)])
            /\ new_propagating' = {}
            /\ cursor' = 1
            /\ received_before' = {n \in Nodes : node_states[n] > 0}
            /\ pc' = "for"
       ELSE /\ pc' = "done"
            /\ UNCHANGED <<step, current_propagators, propagation_queue,
                           propagation_steps, new_propagating, cursor,
                           received_before>>
    /\ UNCHANGED <<impl, graph, total_nodes, origin_node, node_states,
                   rounds, simVars, genVars, sessVars>>

\* One iteration of `for propagator in current_propagators` (list order),
\* with its whole inner loop over the neighbours.
TimingInform ==
    /\ impl = "timing"
    /\ pc = "for"
    /\ cursor <= Len(current_propagators)
    /\ LET newly == VizNewlyInformed(current_propagators[cursor])
       IN  /\ node_states' = Mark(node_states, newly, 1)
           /\ new_propagating' = new_propagating \cup newly
    /\ cursor' = cursor + 1
    /\ UNCHANGED <<impl, graph, total_nodes, origin_node, pc, step,
                   received_before, rounds, propagation_queue,
                   current_propagators, propagation_steps, simVars,
                   genVars, sessVars>>

\* After the for loop: propagation_queue.extend(new_propagators) (a set: any
\* order); the current propagators are marked 1.
TimingEndRound ==
    /\ impl = "timing"
    /\ pc = "for"
    /\ cursor > Len(current_propagators)
    /\ propagation_queue' \in Orders(new_propagating)
    /\ node_states' = Mark(node_states, Range(current_propagators), 1)
    /\ rounds' = Append(rounds, [propagating |-> Range(current_propagators),
                                 before      |-> received_before,
                                 informed    |-> new_propagating])
    /\ pc' = "while"
    /\ UNCHANGED <<impl, graph, total_nodes, origin_node, step,
                   new_propagating, received_before, current_propagators,
                   cursor, propagation_steps, simVars, genVars, sessVars>>

InitStates ==
    /\ impl \in {"viz", "timing"}
    /\ InitState

NextStates ==
    \/ VizBegin
    \/ VizWhileTest
    \/ VizInform
    \/ VizEndRound
    \/ TimingBegin
    \/ TimingWhileTest
    \/ TimingInform
    \/ TimingEndRound

SpecStates == InitStates /\ [][NextStates]_vars

(***************************************************************************)
(* The geographical graph builders:                                        *)
(*   OptimizedNetworkGenerator.create_geographical_network_optimized       *)
(*       (src/large_network_analysis.py), impl = "large"                   *)
(*   SimpleNetworkAnalyzer.create_network                                  *)
(*       (src/simple_large_network_test.py), impl = "simple"               *)
(* Lengths are counted in grid units of 1 / DrawResolution, so that a      *)
(* coordinate, which is a uniform draw, and a distance are integers.  The  *)
(* nodes are placed on the line y = 0, where the Euclidean distance is an  *)
(* integer too.  A probability is a fraction num / den; den = 0 is NaN.    *)
(***************************************************************************)

\* The values of a uniform draw: u stands for the float u / DrawResolution
\* of [0, 1).
Draws == {0, 1}

DrawResolution == Cardinality(Draws)

\* Largest node count of a generated graph.
MaxGenNodes == 3

\* Values of distance_weight (an exponent; 0 is allowed by the constructor).
Weights == {0, 1}

\* Values of connections_per_node.
Caps == {1, 2}

\* Values of the batch size.
BatchSizes == {1, 2}

GridPoints == {<<x, 0>> : x \in Draws}

Min2(a, b) == IF a <= b THEN a ELSE b

RECURSIVE Ascending(_)
\* The members of a set of numbers in increasing order.
Ascending(S) ==
    IF S = {} THEN <<>>
    ELSE LET x == CHOOSE y \in S : \A z \in S : y <= z
         IN  <<x>> \o Ascending(S \ {x})

\* math.sqrt / np.sqrt on the squares that occur on the grid
SqrtExact(sq) == CHOOSE d \in 0 .. sq : d * d = sq

\* calculate_distance; np.sqrt(np.sum((positions - node_pos)**2, axis=1))
calculate_distance(pos1, pos2) ==
    LET dx == pos1[1] - pos2[1]
        dy == pos1[2] - pos2[2]
    IN  SqrtExact(dx * dx + dy * dy)

RECURSIVE Pow(_, _)
Pow(x, n) == IF n = 0 THEN 1 ELSE x * Pow(x, n - 1)

NaN == [num |-> 0, den |-> 0]

\* Mutant: distance / max_distance, without the complement.
DistanceFactorOnly(distance, m) ==
    IF m = 0 THEN NaN ELSE [num |-> distance, den |-> m]

\* 1 - distance / max_distance; in floating point 0.0 / 0 is NaN
DistanceFactorComplement(distance, m) ==
    IF m = 0 THEN NaN ELSE [num |-> m - distance, den |-> m]

\* math.pow / np.power: pow(x, 0) is 1 for every x, NaN and 0 included
Power(base, w) ==
    IF w = 0 THEN [num |-> 1, den |-> 1]
    ELSE IF base.den = 0 THEN NaN
    ELSE [num |-> Pow(base.num, w), den |-> Pow(base.den, w)]

\* probability = pow(1 - distance / max_distance, distance_weight)
ConnectionProbability(distance, m, w) ==
    Power(DistanceFactorComplement(distance, m), w)

\* `random.random() < probability`; a comparison with NaN is false
Admits(u, probability) ==
    /\ probability.den # 0
    /\ u * probability.den < probability.num * DrawResolution

\* nearby_indices: the other nodes within max_distance, in index order
Nearby(i, pos, m) ==
    Ascending({j \in 0 .. (Len(pos) - 1) :
                 /\ j # i
                 /\ calculate_distance(pos[i + 1], pos[j + 1]) <= m})

\* candidates: the nearby nodes whose draw admits them, in index order
Selected(i, pos, m, w, bern) ==
    LET near == Nearby(i, pos, m)
        F[k \in 0 .. Len(near)] ==
            IF k = 0 THEN <<>>
            ELSE IF Admits(bern[k],
                           ConnectionProbability(
                               calculate_distance(pos[i + 1], pos[near[k] + 1]),
                               m, w))
                 THEN Append(F[k - 1], near[k])
                 ELSE F[k - 1]
    IN  F[Len(near)]

\* random's randbelow(n) as a function of one uniform draw
randbelow(n, u) == (u * n) \div DrawResolution

\* random.sample(population, k): k picks from a shrinking pool
random_sample(population, k, smp) ==
    LET n == Len(population)
        F[t \in 0 .. k] ==
            IF t = 0 THEN [result |-> <<>>, pool |-> population]
            ELSE LET prev == F[t - 1]
                     last == n - (t - 1)
                     j    == randbelow(last, smp[t]) + 1
                 IN  [result |-> Append(prev.result, prev.pool[j]),
                      pool   |-> [prev.pool EXCEPT ![j] = prev.pool[last]]]
    IN  F[k].result

\* Mutant: the candidates are returned without the cut.
LimitSkipped(cands, cap, smp) == cands

\* `if len(candidates) > connections_per_node:
\*      candidates = random.sample(candidates, connections_per_node)`
Limit(cands, cap, smp) ==
    IF Len(cands) > cap THEN random_sample(cands, cap, smp) ELSE cands

\* How many draws the cut consumes.
SampleDraws(cands, cap) == IF Len(cands) > cap THEN cap ELSE 0

\* network[k] of a defaultdict(list), without the insertion of the key
Lookup(net, k) == IF k \in DOMAIN net THEN net[k] ELSE <<>>

Store(net, k, v) ==
    [x \in (DOMAIN net) \cup {k} |-> IF x = k THEN v ELSE net[x]]

\* Reading network[k] inserts the key k when it is missing.
Touch(net, k) == Store(net, k, Lookup(net, k))

\* Mutant: the membership test never finds the neighbour.
LinkedNever(net, i, neighbor) == FALSE

\* `neighbor in network[i]` / `G.has_edge(node_idx, neighbor)`
Linked(net, i, neighbor) == neighbor \in Range(Lookup(net, i))

\* network[i].append(neighbor); network[neighbor].append(i)
AppendBoth(net, i, neighbor) ==
    LET a == Store(net, i, Append(Lookup(net, i), neighbor))
    IN  Store(a, neighbor, Append(Lookup(a, neighbor), i))

\* G.add_edge(node_idx, neighbor): an edge that exists is not added again
add_edge(net, i, neighbor) ==
    IF neighbor \in Range(Lookup(net, i)) THEN net
    ELSE AppendBoth(net, i, neighbor)

\* _add_connections / the body of `for neighbor in neighbors:`; the result
\* is the graph and the number of connections added.
add_connections(im, net, i, nbrs) ==
    LET F[t \in 0 .. Len(nbrs)] ==
            IF t = 0 THEN [net |-> net, added |-> 0]
            ELSE LET prev == F[t - 1]
                     read == IF im = "simple" THEN Touch(prev.net, i)
                             ELSE prev.net
                 IN  IF Linked(prev.net, i, nbrs[t])
                     THEN [net |-> read, added |-> prev.added]
                     ELSE [net   |-> IF im = "simple"
                                     THEN AppendBoth(read, i, nbrs[t])
                                     ELSE add_edge(read, i, nbrs[t]),
                           added |-> prev.added + 1]
    IN  F[Len(nbrs)]

\* batch_size = min(1000, self.total_nodes) in create_network; BATCH_SIZE
\* itself in create_geographical_network_optimized
EffectiveBatch ==
    IF impl = "simple" THEN Min2(batch_size, total_nodes) ELSE batch_size

\* Mutant: the batch ends one node early.
BatchEndShort(start) == Min2(start + EffectiveBatch - 1, total_nodes)

\* batch_end = min(batch_start + BATCH_SIZE, self.total_nodes)
BatchEnd(start) == Min2(start + EffectiveBatch, total_nodes)

\* No simulation is running.
SimIdle ==
    /\ graph = <<>>
    /\ origin_node = 0
    /\ received = {}
    /\ propagating = {}
    /\ new_propagating = {}
    /\ todo = {}
    /\ step = 0
    /\ steps = <<>>
    /\ aborted = FALSE
    /\ received_before = {}
    /\ rounds = <<>>
    /\ node_states = <<>>
    /\ propagation_queue = <<>>
    /\ current_propagators = <<>>
    /\ cursor = 1
    /\ propagation_steps = <<>>

\* A generator and the positions handed to its builder.  The module constant
\* MAX_CONNECTION_DISTANCE of the simple analyzer is positive, and so is its
\* DISTANCE_WEIGHT; the constructor of the large generator takes any value.
InitGen ==
    /\ impl \in {"large", "simple"}
    /\ total_nodes \in 1 .. MaxGenNodes
    /\ positions \in [1 .. total_nodes -> GridPoints]
    /\ max_distance \in (IF impl = "simple" THEN 1 .. DrawResolution
                         ELSE 0 .. DrawResolution)
    /\ distance_weight \in (IF impl = "simple" THEN Weights \ {0} ELSE Weights)
    /\ connections_per_node \in Caps
    /\ batch_size \in BatchSizes
    /\ pc = "gen"
    /\ batch_start = 0
    /\ batch_end = 0
    /\ node_idx = 0
    /\ network = <<>>
    /\ connections_added = 0
    /\ candidates = <<>>
    /\ neighbors = <<>>
    /\ visited = <<>>
    /\ properties = <<>>
    /\ edges_to_rewire = <<>>
    /\ SimIdle
    /\ SessIdle

simFrame == <<graph, origin_node, received, propagating, new_propagating,
              todo, step, steps, aborted, received_before, rounds, vizVars>>

genParams == <<impl, total_nodes, positions, max_distance, distance_weight,
               connections_per_node, batch_size>>

\* G = nx.Graph(); G.add_nodes_from(range(n)); connections_added = 0
\* network = defaultdict(list); total_connections = 0
GenBegin ==
    /\ pc = "gen"
    /\ network' = IF impl = "simple" THEN <<>>
                  ELSE [k \in NodeIds(total_nodes) |-> <<>>]
    /\ connections_added' = 0
    /\ batch_start' = 0
    /\ pc' = "batch"
    /\ UNCHANGED <<genParams, properties, edges_to_rewire,
                   batch_end, node_idx, candidates, neighbors,
                   visited, simFrame,
                   sessVars>>

\* One test of `for batch_start in range(0, n, batch_size)`.
BatchTest ==
    /\ pc = "batch"
    /\ IF batch_start < total_nodes
       THEN /\ batch_end' = BatchEnd(batch_start)
            /\ node_idx' = batch_start
            /\ pc' = "node"
       ELSE /\ pc' = "built"
            /\ UNCHANGED <<batch_end, node_idx>>
    /\ UNCHANGED <<genParams, properties, edges_to_rewire,
                   batch_start, network, connections_added,
                   candidates, neighbors, visited, simFrame,
                   sessVars>>

\* One iteration of `for i in range(batch_start, batch_end)`: the pass of
\* node i, with one uniform draw per nearby node and the draws of the cut.
ProcessNode ==
    /\ pc = "node"
    /\ node_idx < batch_end
    /\ \E bern \in [1 .. Len(Nearby(node_idx, positions, max_distance))
                     -> Draws] :
         LET cands == Selected(node_idx, positions, max_distance,
                               distance_weight, bern)
         IN  \E smp \in [1 .. SampleDraws(cands, connections_per_node)
                          -> Draws] :
               LET nbrs == Limit(cands, connections_per_node, smp)
                   r    == add_connections(impl, network, node_idx, nbrs)
               IN  /\ candidates' = cands
                   /\ neighbors' = nbrs
                   /\ network' = r.net
                   /\ connections_added' = connections_added + r.added
    /\ visited' = Append(visited, node_idx)
    /\ node_idx' = node_idx + 1
    /\ UNCHANGED <<genParams, properties, edges_to_rewire,
                   pc, batch_start, batch_end, simFrame,
                   sessVars>>

\* The inner loop is exhausted: the next batch_start of the range.
BatchNext ==
    /\ pc = "node"
    /\ node_idx >= batch_end
    /\ batch_start' = batch_start + EffectiveBatch
    /\ pc' = "batch"
    /\ UNCHANGED <<genParams, properties, edges_to_rewire,
                   batch_end, node_idx, network,
                   connections_added, candidates, neighbors, visited,
                   simFrame,
                   sessVars>>

NextGen ==
    \/ GenBegin
    \/ BatchTest
    \/ ProcessNode
    \/ BatchNext

SpecGen == InitGen /\ [][NextGen]_vars

(***************************************************************************)
(* analyze_network_properties on the graph the builder returned.           *)
(***************************************************************************)

\* The nodes a breadth-first search from the set S visits in at most k
\* rounds; reading network[node] of a missing key yields the empty list.
RECURSIVE Visit(_, _, _)
Visit(net, S, k) ==
    IF k = 0 THEN S
    ELSE Visit(net, S \cup UNION {Range(Lookup(net, n)) : n \in S}, k - 1)

\* The keys `network[node]` has been read for: the visited nodes.
RECURSIVE TouchAll(_, _)
TouchAll(net, S) ==
    IF S = {} THEN net
    ELSE LET n == CHOOSE x \in S : TRUE
         IN  TouchAll(Touch(net, n), S \ {n})

\* len(network): the number of keys of the mapping.
Size(net) == Cardinality(DOMAIN net)

\* len(self.graph.edges()) and
\* sum(len(neighbors) for neighbors in network.values()) // 2
total_edges(net) ==
    LET RECURSIVE Sum(_)
        Sum(K) == IF K = {} THEN 0
                  ELSE LET k == CHOOSE x \in K : TRUE
                       IN  Len(net[k]) + Sum(K \ {k})
    IN  Sum(DOMAIN net) \div 2

\* is_connected(network) of the simple analyzer: [result, net], net being
\* the mapping as the search leaves it.
is_connected(net) ==
    IF DOMAIN net = {}
    THEN [result |-> FALSE, net |-> net]
    ELSE LET seen  == Visit(net, {0}, total_nodes)
             after == TouchAll(net, seen)
         IN  [result |-> Cardinality(seen) = Size(after), net |-> after]

\* nx.is_connected(G): the search from the first node reaches len(G) nodes.
nx_is_connected(net) ==
    Cardinality(Visit(net, {0}, total_nodes)) = Size(net)

\* The number of distinct components over the keys of the mapping.
count_components(net) ==
    Cardinality({Visit(net, {k}, total_nodes) : k \in DOMAIN net})

\* A quotient of two integers, kept exact.
Ratio(n, d) == [num |-> n, den |-> d]

\* 2 * total_edges / total_nodes if total_nodes > 0 else 0
average_degree(edges, n) ==
    IF n > 0 THEN Ratio(2 * edges, n) ELSE Ratio(0, 1)

\* 2 * total_edges / (total_nodes * (total_nodes - 1)) if total_nodes > 1
\* else 0; nx.density(G) is the same with 0 for a graph without edges.
density(edges, n) ==
    IF n > 1 THEN Ratio(2 * edges, n * (n - 1)) ELSE Ratio(0, 1)

\* The number of hops from u to v in a connected graph.
Hops(net, u, v) ==
    CHOOSE k \in 0 .. total_nodes :
        /\ v \in Visit(net, {u}, k)
        /\ \A j \in 0 .. (k - 1) : v \notin Visit(net, {u}, j)

RECURSIVE SumOver(_, _)
SumOver(f, K) ==
    IF K = {} THEN 0
    ELSE LET k == CHOOSE x \in K : TRUE
         IN  f[k] + SumOver(f, K \ {k})

RECURSIVE ProductOver(_, _)
ProductOver(f, K) ==
    IF K = {} THEN 1
    ELSE LET k == CHOOSE x \in K : TRUE
         IN  f[k] * ProductOver(f, K \ {k})

\* nx.average_shortest_path_length(G) of a connected graph: the sum of the
\* hops over the ordered pairs, divided by n * (n - 1); 0 for one node.
average_shortest_path_length(net) ==
    LET K == DOMAIN net
        n == Cardinality(K)
        h == [e \in K \X K |-> Hops(net, e[1], e[2])]
    IN  IF n = 1 THEN Ratio(0, 1)
        ELSE Ratio(SumOver(h, K \X K), n * (n - 1))

\* nx.average_clustering(G): the mean over the nodes of
\* 2 * triangles / (degree * (degree - 1)), 0 for a degree below 2.
average_clustering(net) ==
    LET K    == DOMAIN net
        nb   == [k \in K |-> Range(net[k]) \ {k}]
        links == [k \in K |->
                    Cardinality({e \in nb[k] \X nb[k] :
                                   e[1] < e[2] /\ e[2] \in nb[e[1]]})]
        pairs == [k \in K |->
                    LET d == Cardinality(nb[k])
                    IN  IF d < 2 THEN 1 ELSE d * (d - 1)]
        all  == ProductOver(pairs, K)
        part == [k \in K |-> (2 * links[k] * all) \div pairs[k]]
    IN  Ratio(SumOver(part, K), all * Cardinality(K))

\* float('inf')
Infinity == Ratio(1, 0)

\* analyze_network_properties; `fails` tells whether the exact computation
\* of the two averages raises.
AnalyzeProperties ==
    /\ pc = "built"
    /\ IF impl = "simple"
       THEN LET c == is_connected(network)
            IN  /\ properties' =
                       [total_nodes |-> Size(network),
                        total_edges |-> total_edges(network),
                        average_degree |->
                            average_degree(total_edges(network),
                                           Size(network)),
                        density |->
                            density(total_edges(network), Size(network)),
                        is_connected |-> c.result,
                        number_of_components |-> count_components(c.net)]
                /\ network' = c.net
       ELSE /\ \E fails \in BOOLEAN :
                 LET n == Size(network)
                     e == total_edges(network)
                 IN  properties' =
                       IF ~nx_is_connected(network)
                       THEN [total_nodes |-> n,
                             total_edges |-> e,
                             average_degree |-> average_degree(e, n),
                             density |-> density(e, n),
                             is_connected |-> FALSE,
                             number_of_components |->
                                 count_components(network)]
                       ELSE [total_nodes |-> n,
                             total_edges |-> e,
                             average_degree |-> average_degree(e, n),
                             density |-> density(e, n),
                             is_connected |-> TRUE,
                             number_of_components |->
                                 count_components(network),
                             average_clustering |->
                                 IF fails THEN Ratio(0, 1)
                                 ELSE average_clustering(network),
                             average_path_length |->
                                 IF fails THEN Infinity
                                 ELSE average_shortest_path_length(network)]
            /\ UNCHANGED network
    /\ pc' = "analyzed"
    /\ UNCHANGED <<genParams, batch_start, batch_end, node_idx,
                   connections_added, candidates, neighbors, visited,
                   edges_to_rewire,                    simFrame, sessVars>>

NextAnalyze ==
    \/ NextGen
    \/ AnalyzeProperties

SpecAnalyze == InitGen /\ [][NextAnalyze]_vars

(***************************************************************************)
(* The operations that read the graph the builder returned, called in any  *)
(* order: simulate_propagation as one step, and the analysis.              *)
(***************************************************************************)

\* The rounds of simulate_propagation from the round with the wave `wave`
\* on: [steps, received, propagating, step, net], net being the mapping as
\* the reads network[node] of the simple analyzer leave it.
RECURSIVE SimulateFrom(_, _, _, _, _, _, _)
SimulateFrom(im, net, n, got, wave, k, trace) ==
    IF \/ wave = {}
       \/ (im = "simple" /\ Cardinality(got) >= n)
    THEN [steps |-> trace, received |-> got, propagating |-> wave,
          step |-> k, net |-> net]
    ELSE LET read == IF im = "simple" THEN TouchAll(net, wave) ELSE net
             new  == (UNION {Range(Lookup(net, node)) : node \in wave}) \ got
             now  == got \cup new
             data == [step              |-> k,
                      received_count    |-> Cardinality(now),
                      propagating_count |-> Cardinality(wave),
                      pending_count     |-> n - Cardinality(now),
                      step_time         |-> tick,
                      total_time        |-> tick * (k + 1)]
         IN  IF k + 1 > n
             THEN [steps |-> Append(trace, data), received |-> now,
                   propagating |-> new, step |-> k + 1, net |-> read]
             ELSE SimulateFrom(im, read, n, now, new, k + 1,
                               Append(trace, data))

\* simulate_propagation from `origin` on the graph `net` of n nodes.
simulate_propagation(im, net, n, origin) ==
    SimulateFrom(im, net, n, {origin}, {origin}, 0, <<>>)

\* simulate_propagation(network, origin_node) on the built graph.
SimulateOnNetwork(origin) ==
    /\ pc \in {"built", "analyzed"}
    /\ received = {}
    /\ LET r == simulate_propagation(impl, network, total_nodes, origin)
       IN  /\ steps' = r.steps
           /\ received' = r.received
           /\ propagating' = r.propagating
           /\ step' = r.step
           /\ network' = r.net
    /\ origin_node' = origin
    /\ UNCHANGED <<genParams, pc, batch_start, batch_end, node_idx,
                   connections_added, candidates, neighbors, visited,
                   properties, edges_to_rewire, graph, new_propagating,
                   todo, aborted,
                   received_before, rounds, vizVars, sessVars>>

NextUse ==
    \/ NextGen
    \/ AnalyzeProperties
    \/ \E origin \in NodeIds(total_nodes) : SimulateOnNetwork(origin)

SpecUse == InitGen /\ [][NextUse]_vars

(***************************************************************************)
(* The global random generators.  np.random and random are process-wide;   *)
(* a constructor seeds them, every draw advances them.  The stream of a    *)
(* seed is a fixed sequence that is not known in advance: rng_log keeps    *)
(* the part of it that was drawn so far, a draw beyond that part chooses   *)
(* the next values, and a draw after re-seeding reads the same values      *)
(* again.  Seed 0 stands for the state of a generator nobody has seeded.   *)
(***************************************************************************)
Libs == {"np", "py"}

SEED == 42

Seeds == {0, SEED, SEED + 1}

\* The stream the library reads at present.
Stream(lg, r, lib) == lg[<<lib, r[lib].seed>>]

\* How many of the next k values of the library have never been drawn.
Missing(lg, r, lib, k) ==
    LET m == r[lib].idx + k - 1 - Len(Stream(lg, r, lib))
    IN  IF m > 0 THEN m ELSE 0

\* The next k values, ext being the values drawn for the first time.
Read(lg, r, lib, k, ext) ==
    SubSeq(Stream(lg, r, lib) \o ext, r[lib].idx, r[lib].idx + k - 1)

Advance(r, lib, k) == [r EXCEPT ![lib].idx = @ + k]

Extend(lg, r, lib, ext) == [lg EXCEPT ![<<lib, r[lib].seed>>] = @ \o ext]

\* Mutant: the constructor leaves the global generators as they are.
SeededNot(r, im, seed) == r

\* random.seed(seed); np.random.seed(seed) in OptimizedNetworkGenerator;
\* random.seed(seed) alone in SimpleNetworkAnalyzer
Seeded(r, im, seed) ==
    [lib \in Libs |-> IF lib = "py" \/ im = "large"
                      THEN [seed |-> seed, idx |-> 1]
                      ELSE r[lib]]

\* The library that draws the positions and the admissions.
DrawLib(im) == IF im = "large" THEN "np" ELSE "py"

\* The pass of node i with the draws of the global generators: one draw
\* per nearby node, then the draws of random.sample.
SeededPass(i) ==
    LET c == Len(Nearby(i, positions, max_distance))
    IN  \E e1 \in [1 .. Missing(rng_log, rng, DrawLib(impl), c) -> Draws] :
          LET bern  == Read(rng_log, rng, DrawLib(impl), c, e1)
              r1    == Advance(rng, DrawLib(impl), c)
              l1    == Extend(rng_log, rng, DrawLib(impl), e1)
              cands == Selected(i, positions, max_distance, distance_weight,
                                bern)
              k     == SampleDraws(cands, connections_per_node)
          IN  \E e2 \in [1 .. Missing(l1, r1, "py", k) -> Draws] :
                LET nbrs == Limit(cands, connections_per_node,
                                  Read(l1, r1, "py", k, e2))
                    res  == add_connections(impl, network, i, nbrs)
                IN  /\ candidates' = cands
                    /\ neighbors' = nbrs
                    /\ network' = res.net
                    /\ connections_added' = connections_added + res.added
                    /\ rng' = Advance(r1, "py", k)
                    /\ rng_log' = Extend(l1, r1, "py", e2)
                    /\ visited' = Append(visited, i)

\* The generators before anything was seeded, nothing drawn yet.
RngFresh ==
    /\ rng = [lib \in Libs |-> [seed |-> 0, idx |-> 1]]
    /\ rng_log = [key \in Libs \X Seeds |-> <<>>]

(***************************************************************************)
(* A caller that constructs a generator and calls the per-node passes      *)
(* (_find_geographical_neighbors and _add_connections) itself: first in    *)
(* the order 0 .. n-1 of the builder, then, with a generator constructed   *)
(* from the same arguments and the same positions, in an order of its      *)
(* choice.                                                                 *)
(***************************************************************************)
IndexOrder(n) == [k \in 1 .. n |-> k - 1]

InitOrder ==
    /\ impl \in {"large", "simple"}
    /\ total_nodes \in 1 .. MaxGenNodes
    /\ positions \in [1 .. total_nodes -> GridPoints]
    /\ max_distance \in 1 .. DrawResolution
    /\ distance_weight \in Weights \ {0}
    /\ connections_per_node \in Caps
    /\ batch_size = 1
    /\ pc = "new"
    /\ batch_start = 0
    /\ batch_end = 0
    /\ node_idx = 0
    /\ network = <<>>
    /\ connections_added = 0
    /\ candidates = <<>>
    /\ neighbors = <<>>
    /\ visited = <<>>
    /\ properties = <<>>
    /\ edges_to_rewire = <<>>
    /\ SimIdle
    /\ RngFresh
    /\ tick = 0
    /\ run = 1
    /\ first = <<>>
    /\ order = IndexOrder(total_nodes)
    /\ calls = <<>>

\* The constructor seeds the generators; the caller starts an empty graph.
OrderConstruct ==
    /\ pc = "new"
    /\ rng' = Seeded(rng, impl, SEED)
    /\ network' = IF impl = "simple" THEN <<>>
                  ELSE [k \in NodeIds(total_nodes) |-> <<>>]
    /\ connections_added' = 0
    /\ visited' = <<>>
    /\ pc' = "order"
    /\ UNCHANGED <<genParams, properties, edges_to_rewire,
                   batch_start, batch_end, node_idx, candidates,
                   neighbors, simFrame, rng_log, tick, run, first, order,
                   calls>>

\* The pass of the next node of the order.
OrderedPass ==
    /\ pc = "order"
    /\ Len(visited) < total_nodes
    /\ SeededPass(order[Len(visited) + 1])
    /\ UNCHANGED <<genParams, properties, edges_to_rewire,
                   pc, batch_start, batch_end, node_idx, simFrame,
                   tick, run, first, order, calls>>

\* All passes are made: the graph of the first run is kept and the second
\* run gets its order; after the second run the caller stops.
OrderFinish ==
    /\ pc = "order"
    /\ Len(visited) = total_nodes
    /\ IF run = 1
       THEN /\ first' = [network |-> network]
            /\ run' = 2
            /\ order' \in Orders(NodeIds(total_nodes))
            /\ pc' = "new"
       ELSE /\ pc' = "end"
            /\ UNCHANGED <<first, run, order>>
    /\ UNCHANGED <<genParams, properties, edges_to_rewire,
                   batch_start, batch_end, node_idx, network,
                   connections_added, candidates, neighbors, visited,
                   simFrame, rng, rng_log, tick, calls>>

NextOrder ==
    \/ OrderConstruct
    \/ OrderedPass
    \/ OrderFinish

SpecOrder == InitOrder /\ [][NextOrder]_vars

(***************************************************************************)
(* analyze_network_size, run twice in one process: construct the           *)
(* generator, generate the positions, build the graph, simulate from node  *)
(* 0.  The streams considered put every node on the line y = 0.  BATCH_SIZE *)
(* and the other arguments are the same in both runs.                      *)
(***************************************************************************)

\* Largest node count of a pipeline run.
MaxRunNodes == 2

\* What the clock can show per round.
Ticks == {0, 1}

\* The batch size of both runs.
LargestBatch == CHOOSE b \in BatchSizes : \A c \in BatchSizes : c <= b

\* positions: row i is the pair of the draws 2i+1 and 2i+2
PositionsOf(values) ==
    [k \in 1 .. (Len(values) \div 2) |-> <<values[2 * k - 1], values[2 * k]>>]

InitRun ==
    /\ impl \in {"large", "simple"}
    /\ total_nodes \in 1 .. MaxRunNodes
    /\ positions = <<>>
    /\ max_distance \in 1 .. DrawResolution
    /\ distance_weight \in Weights \ {0}
    /\ connections_per_node \in Caps
    /\ batch_size = LargestBatch
    /\ pc = "new"
    /\ batch_start = 0
    /\ batch_end = 0
    /\ node_idx = 0
    /\ network = <<>>
    /\ connections_added = 0
    /\ candidates = <<>>
    /\ neighbors = <<>>
    /\ visited = <<>>
    /\ properties = <<>>
    /\ edges_to_rewire = <<>>
    /\ SimIdle
    /\ RngFresh
    /\ tick = 0
    /\ run = 1
    /\ first = <<>>
    /\ order = IndexOrder(total_nodes)
    /\ calls = <<>>

\* generator = OptimizedNetworkGenerator(...) / SimpleNetworkAnalyzer(...);
\* start_time = time.time()
RunConstruct ==
    /\ pc = "new"
    /\ rng' = Seeded(rng, impl, SEED)
    /\ tick' \in Ticks
    /\ visited' = <<>>
    /\ pc' = "positions"
    /\ UNCHANGED <<genParams, properties, edges_to_rewire,
                   batch_start, batch_end, node_idx, network,
                   connections_added, candidates, neighbors, simFrame,
                   rng_log, run, first, order, calls>>

\* positions = generator.generate_positions()
RunGeneratePositions ==
    /\ pc = "positions"
    /\ LET lib == DrawLib(impl)
           k   == 2 * total_nodes
           old == Len(Stream(rng_log, rng, lib))
       IN  \E ext \in {e \in [1 .. Missing(rng_log, rng, lib, k) -> Draws] :
                         \A j \in DOMAIN e : (old + j) % 2 = 0 => e[j] = 0} :
             /\ positions' = PositionsOf(Read(rng_log, rng, lib, k, ext))
             /\ rng' = Advance(rng, lib, k)
             /\ rng_log' = Extend(rng_log, rng, lib, ext)
    /\ pc' = "gen"
    /\ UNCHANGED <<impl, total_nodes, max_distance, distance_weight,
                   connections_per_node, batch_size, batch_start, batch_end,
                   node_idx, network, connections_added, candidates,
                   neighbors, visited, properties, edges_to_rewire,
                   simFrame, tick, run,
                   first, order, calls>>

\* One iteration of `for i in range(batch_start, batch_end)` with the draws
\* of the global generators.
SeededProcessNode ==
    /\ pc = "node"
    /\ node_idx < batch_end
    /\ SeededPass(node_idx)
    /\ node_idx' = node_idx + 1
    /\ UNCHANGED <<genParams, properties, edges_to_rewire,
                   pc, batch_start, batch_end, simFrame, tick,
                   run, first, order, calls>>

\* The adjacency the simulator reads: graph.neighbors(node) / network[node]
AdjacencyOf(net) ==
    [k \in NodeIds(total_nodes) |-> Range(Lookup(net, k))]

\* simulator = MessagePropagationSimulator(graph, origin_node=0)
RunSimulate ==
    /\ pc = "built"
    /\ graph' = AdjacencyOf(network)
    /\ origin_node' = 0
    /\ received' = {}
    /\ propagating' = {}
    /\ new_propagating' = {}
    /\ todo' = {}
    /\ step' = 0
    /\ steps' = <<>>
    /\ aborted' = FALSE
    /\ received_before' = {}
    /\ rounds' = <<>>
    /\ pc' = "start"
    /\ UNCHANGED <<genVars, impl, total_nodes, vizVars, sessVars>>

\* The results of the run are kept; the second run starts after the first.
RunFinish ==
    /\ pc = "done"
    /\ IF run = 1
       THEN /\ first' = [positions |-> positions, network |-> network,
                         graph |-> graph, steps |-> steps]
            /\ run' = 2
            /\ pc' = "new"
       ELSE /\ pc' = "end"
            /\ UNCHANGED <<first, run>>
    /\ UNCHANGED <<genVars, impl, total_nodes, simFrame, rng, rng_log, tick,
                   order, calls>>

NextRun ==
    \/ RunConstruct
    \/ RunGeneratePositions
    \/ GenBegin
    \/ BatchTest
    \/ SeededProcessNode
    \/ BatchNext
    \/ RunSimulate
    \/ Begin
    \/ WhileTest
    \/ \E node \in Nodes : Inform(node)
    \/ RecordStep
    \/ RunFinish

SpecRun == InitRun /\ [][NextRun]_vars

(***************************************************************************)
(* A process that constructs generators, calls generate_positions on them  *)
(* and draws from the global generators in between.  `calls` lists what    *)
(* was done: [op = "new"] a generator was constructed, [op = "positions"]  *)
(* generate_positions was called on the generator constructed at `gen`,    *)
(* [op = "draw"] other code drew one value.                                *)
(***************************************************************************)

\* Largest number of operations of the process.
MaxCalls == 4

InitPos ==
    /\ impl \in {"large", "simple"}
    /\ total_nodes = 0
    /\ pc = "session"
    /\ GenIdle
    /\ SimIdle
    /\ RngFresh
    /\ tick = 0
    /\ run = 0
    /\ first = <<>>
    /\ order = <<>>
    /\ calls = <<>>

posFrame == <<impl, total_nodes, pc, genVars, simFrame, tick, run, first,
              order>>

\* OptimizedNetworkGenerator(n, ..., seed) / SimpleNetworkAnalyzer(n, ..., seed)
PosConstruct(n, seed) ==
    /\ pc = "session"
    /\ Len(calls) < MaxCalls
    /\ rng' = Seeded(rng, impl, seed)
    /\ calls' = Append(calls, [op |-> "new", gen |-> Len(calls) + 1, n |-> n,
                               seed |-> seed, result |-> <<>>])
    /\ UNCHANGED <<posFrame, rng_log>>

\* generate_positions() on the generator constructed at calls[g]
PosGenerate(g) ==
    /\ pc = "session"
    /\ Len(calls) < MaxCalls
    /\ g \in DOMAIN calls
    /\ calls[g].op = "new"
    /\ LET lib == DrawLib(impl)
           k   == 2 * calls[g].n
       IN  \E ext \in [1 .. Missing(rng_log, rng, lib, k) -> Draws] :
             /\ calls' = Append(calls,
                    [op |-> "positions", gen |-> g, n |-> calls[g].n,
                     seed |-> calls[g].seed,
                     result |-> PositionsOf(Read(rng_log, rng, lib, k, ext))])
             /\ rng' = Advance(rng, lib, k)
             /\ rng_log' = Extend(rng_log, rng, lib, ext)
    /\ UNCHANGED posFrame

\* Any other draw of the process: random.random() or np.random.random()
PosOtherDraw(lib) ==
    /\ pc = "session"
    /\ Len(calls) < MaxCalls
    /\ \E ext \in [1 .. Missing(rng_log, rng, lib, 1) -> Draws] :
         /\ rng' = Advance(rng, lib, 1)
         /\ rng_log' = Extend(rng_log, rng, lib, ext)
    /\ calls' = Append(calls, [op |-> "draw", gen |-> 0, n |-> 0, seed |-> 0,
                               result |-> <<>>])
    /\ UNCHANGED posFrame

NextPos ==
    \/ \E n \in 1 .. MaxRunNodes, seed \in Seeds \ {0} : PosConstruct(n, seed)
    \/ \E g \in 1 .. MaxCalls : PosGenerate(g)
    \/ \E lib \in Libs : PosOtherDraw(lib)

SpecPos == InitPos /\ [][NextPos]_vars

(***************************************************************************)
(* simulate_propagation with the two nested loops of a round taken apart:  *)
(* one step per pair (propagating node, neighbour), the pairs of a round   *)
(* in any order.  This covers every iteration order of the set             *)
(* `propagating` and of the neighbour lists, and every interleaving of the *)
(* informing steps.                                                        *)
(***************************************************************************)

\* Largest node count for which every graph is simulated pair by pair.
MaxFineNodes == 3

FineGraphs ==
    {GraphOf(n, E) : <<n, E>> \in
        UNION {{<<m, F>> : F \in SUBSET Pairs(m)} : m \in 1 .. MaxFineNodes}}
    \cup {Cycle6, TwoTriangles}

InitFine ==
    /\ Init
    /\ graph \in FineGraphs

\* Mutant: the newly informed node replaces the set instead of joining it.
AddInformedOverwrite(wave, neighbor) == {neighbor}

\* new_propagating.add(neighbor)
AddInformed(wave, neighbor) == wave \cup {neighbor}

\* The while test; on entry the pairs of the round are still to be visited.
FineWhileTest ==
    /\ impl \in {"large", "simple"}
    /\ pc = "while"
    /\ IF LoopCondition
       THEN /\ new_propagating' = {}
            /\ todo' = {<<node, neighbor>> \in propagating \X Nodes :
                           neighbor \in graph[node]}
            /\ received_before' = received
            /\ pc' = "for"
       ELSE /\ pc' = "done"
            /\ UNCHANGED <<new_propagating, todo, received_before>>
    /\ UNCHANGED <<impl, graph, total_nodes, origin_node, received,
                   propagating, step, steps, aborted, rounds, vizVars,
                   genVars, sessVars>>

\* The body of the inner loop for one neighbour of one propagating node.
InformOne(node, neighbor) ==
    /\ impl \in {"large", "simple"}
    /\ pc = "for"
    /\ <<node, neighbor>> \in todo
    /\ IF neighbor \notin received
       THEN /\ received' = received \cup {neighbor}
            /\ new_propagating' = AddInformed(new_propagating, neighbor)
       ELSE UNCHANGED <<received, new_propagating>>
    /\ todo' = todo \ {<<node, neighbor>>}
    /\ UNCHANGED <<impl, graph, total_nodes, origin_node, pc, propagating,
                   step, steps, aborted, received_before, rounds, vizVars,
                   genVars, sessVars>>

NextFine ==
    \/ Begin
    \/ FineWhileTest
    \/ \E node, neighbor \in Nodes : InformOne(node, neighbor)
    \/ RecordStep

SpecFine == InitFine /\ [][NextFine]_vars

(***************************************************************************)
(* The pipeline for any configuration: the constructors take every         *)
(* total_nodes and every origin_node, also those outside the graph.  An    *)
(* exception that ends the run leaves it at pc = "error".                  *)
(***************************************************************************)

\* Largest total_nodes and origin_node of a configuration.
MaxConfigNodes == 2

\* The values of total_nodes and of origin_node: below, at and above zero.
ConfigValues == (0 - 1) .. MaxConfigNodes

InitConfig ==
    /\ impl \in {"large", "simple"}
    /\ total_nodes \in ConfigValues
    /\ origin_node \in ConfigValues
    /\ max_distance \in 1 .. DrawResolution
    /\ distance_weight \in Weights \ {0}
    /\ connections_per_node \in Caps
    /\ batch_size = LargestBatch
    /\ pc = "new"
    /\ positions = <<>>
    /\ batch_start = 0
    /\ batch_end = 0
    /\ node_idx = 0
    /\ network = <<>>
    /\ connections_added = 0
    /\ candidates = <<>>
    /\ neighbors = <<>>
    /\ visited = <<>>
    /\ properties = <<>>
    /\ edges_to_rewire = <<>>
    /\ graph = <<>>
    /\ received = {}
    /\ propagating = {}
    /\ new_propagating = {}
    /\ todo = {}
    /\ step = 0
    /\ steps = <<>>
    /\ aborted = FALSE
    /\ received_before = {}
    /\ rounds = <<>>
    /\ node_states = <<>>
    /\ propagation_queue = <<>>
    /\ current_propagators = <<>>
    /\ cursor = 1
    /\ propagation_steps = <<>>
    /\ SessIdle

configFrame == <<impl, total_nodes, origin_node, max_distance,
                 distance_weight, connections_per_node, batch_size,
                 batch_start, batch_end, node_idx, connections_added,
                 candidates, neighbors, visited, properties,
                 edges_to_rewire, received,
                 propagating, new_propagating, todo, step, steps, aborted,
                 received_before, rounds, vizVars, sessVars>>

\* __init__ stores its arguments and seeds the generators: no test of
\* total_nodes.
ConfigConstruct ==
    /\ pc = "new"
    /\ pc' = "positions"
    /\ UNCHANGED <<configFrame, positions, network, graph>>

\* generate_positions: np.random.rand(n, 2) raises for a negative n and
\* returns an empty array for 0; the simple analyzer loops over range(n).
ConfigGeneratePositions ==
    /\ pc = "positions"
    /\ IF impl = "large" /\ total_nodes < 0
       THEN /\ pc' = "error"
            /\ UNCHANGED positions
       ELSE /\ positions' \in [1 .. total_nodes -> GridPoints]
            /\ pc' = IF total_nodes > 0 THEN "gen" ELSE "gen0"
    /\ UNCHANGED <<configFrame, network, graph>>

\* The builder for total_nodes <= 0.  Large: range(0, n, BATCH_SIZE) is
\* empty and the graph without nodes is returned.  Simple: batch_size is
\* min(1000, n); range(0, 0, 0) raises, and range(0, n, n) for a negative n
\* has the one element 0, for which range(0, batch_end) is empty.
ConfigBuildEmpty ==
    /\ pc = "gen0"
    /\ IF impl = "simple" /\ total_nodes = 0
       THEN pc' = "error"
       ELSE pc' = "built"
    /\ network' = <<>>
    /\ UNCHANGED <<configFrame, positions, graph>>

\* MessagePropagationSimulator(graph, origin_node) and the entry of
\* simulate_propagation: no test of origin_node.  graph.neighbors(origin)
\* raises in the first round for a node that is not in the graph; the
\* defaultdict of the simple analyzer yields an empty list for it.
ConfigSimulate ==
    /\ pc = "built"
    /\ IF impl = "simple"
       THEN /\ graph' = [k \in NodeIds(total_nodes) \cup {origin_node} |->
                           Range(Lookup(network, k))]
            /\ pc' = "start"
       ELSE /\ graph' = AdjacencyOf(network)
            /\ pc' = IF origin_node \in NodeIds(total_nodes)
                     THEN "start" ELSE "error"
    /\ UNCHANGED <<configFrame, positions, network>>

NextConfig ==
    \/ ConfigConstruct
    \/ ConfigGeneratePositions
    \/ ConfigBuildEmpty
    \/ GenBegin
    \/ BatchTest
    \/ ProcessNode
    \/ BatchNext
    \/ ConfigSimulate
    \/ Begin
    \/ WhileTest
    \/ \E node \in Nodes : Inform(node)
    \/ RecordStep

SpecConfig == InitConfig /\ [][NextConfig]_vars

(***************************************************************************)
(* generate_network: the ring lattice followed by random rewiring          *)
(*       (src/message_propagation_visualization.py), impl = "viz"          *)
(*       (src/propagation_timing_analysis.py), impl = "timing"             *)
(* The graph G is kept in `network` as the adjacency of networkx: for each *)
(* node the list of its neighbours in the order they were added; a         *)
(* self-loop is the node in its own list.                                  *)
(***************************************************************************)

\* Largest total_nodes of a ring.
MaxRingNodes == 3

\* The values of connections_per_node: up to k = n and beyond.
RingConnections == 0 .. (2 * MaxRingNodes + 1)

\* G.add_edge(u, v)
nx_add_edge(net, u, v) ==
    IF v \in Range(net[u]) THEN net
    ELSE IF u = v THEN [net EXCEPT ![u] = Append(@, u)]
    ELSE [net EXCEPT ![u] = Append(@, v), ![v] = Append(@, u)]

\* The list q without the element x.
Without(q, x) == SelectSeq(q, LAMBDA y : y # x)

\* G.remove_edge(u, v)
nx_remove_edge(net, u, v) ==
    [net EXCEPT ![u] = Without(@, v), ![v] = Without(net[v], u)]

\* The inner loop of the lattice for node i: for j in range(1, k + 1) the
\* edges to (i + j) % n and to (i - j) % n.
RECURSIVE RingEdges(_, _, _, _)
RingEdges(net, i, j, k) ==
    IF j > k THEN net
    ELSE LET n       == Cardinality(DOMAIN net)
             forward == nx_add_edge(net, i, (i + j) % n)
         IN  RingEdges(nx_add_edge(forward, i, (i - j) % n), i, j + 1, k)

\* G.edges(): the nodes in the order they were added, for each node its
\* neighbours in list order, an edge being left out at its second end.
RECURSIVE EdgesFrom(_, _)
EdgesFrom(net, u) ==
    IF u \notin DOMAIN net THEN <<>>
    ELSE LET later == SelectSeq(net[u], LAMBDA v : v >= u)
         IN  [t \in 1 .. Len(later) |-> <<u, later[t]>>]
                 \o EdgesFrom(net, u + 1)

Edges(net) == EdgesFrom(net, 0)

\* The sublist of q at the positions of the set `chosen`.
RECURSIVE Chosen(_, _, _)
Chosen(q, chosen, t) ==
    IF t > Len(q) THEN <<>>
    ELSE (IF t \in chosen THEN <<q[t]>> ELSE <<>>) \o Chosen(q, chosen, t + 1)

\* [n for n in range(total_nodes) if n != node1 and not G.has_edge(node1, n)]
possible_targets(net, node1) ==
    {n \in DOMAIN net : n # node1 /\ n \notin Range(net[node1])}

InitRing ==
    /\ impl \in {"viz", "timing"}
    /\ total_nodes \in 1 .. MaxRingNodes
    /\ connections_per_node \in RingConnections
    /\ pc = "ring"
    /\ positions = <<>>
    /\ max_distance = 0
    /\ distance_weight = 0
    /\ batch_size = 0
    /\ batch_start = 0
    /\ batch_end = 0
    /\ node_idx = 0
    /\ network = <<>>
    /\ connections_added = 0
    /\ candidates = <<>>
    /\ neighbors = <<>>
    /\ visited = <<>>
    /\ properties = <<>>
    /\ edges_to_rewire = <<>>
    /\ SimIdle
    /\ SessIdle

ringFrame == <<impl, total_nodes, connections_per_node, positions,
               max_distance, distance_weight, batch_size, batch_start,
               batch_end, connections_added, candidates, neighbors, visited,
               properties, graph, origin_node, received, propagating,
               new_propagating, todo, step, steps, aborted, received_before,
               rounds, node_states, propagation_queue, current_propagators,
               propagation_steps, sessVars>>

\* G = nx.Graph(); G.add_nodes_from(range(total_nodes))
RingBegin ==
    /\ pc = "ring"
    /\ network' = [n \in NodeIds(total_nodes) |-> <<>>]
    /\ node_idx' = 0
    /\ pc' = "lattice"
    /\ UNCHANGED <<ringFrame, edges_to_rewire, cursor>>

\* One iteration of `for i in range(total_nodes)`.  When the loop is
\* exhausted, the pass over G.edges() with one draw of random.random() per
\* edge: `rewired` holds the positions whose draw was below 0.3.
RingNode ==
    /\ pc = "lattice"
    /\ IF node_idx < total_nodes
       THEN /\ network' = RingEdges(network, node_idx, 1,
                                    connections_per_node \div 2)
            /\ node_idx' = node_idx + 1
            /\ UNCHANGED <<pc, edges_to_rewire, cursor>>
       ELSE /\ \E rewired \in SUBSET (1 .. Len(Edges(network))) :
                  edges_to_rewire' = Chosen(Edges(network), rewired, 1)
            /\ cursor' = 1
            /\ pc' = "rewire"
            /\ UNCHANGED <<network, node_idx>>
    /\ UNCHANGED ringFrame

\* One iteration of `for edge in edges_to_rewire`; when the loop is
\* exhausted, G is returned.
Rewire ==
    /\ pc = "rewire"
    /\ IF cursor <= Len(edges_to_rewire)
       THEN LET edge    == edges_to_rewire[cursor]
                removed == nx_remove_edge(network, edge[1], edge[2])
                targets == possible_targets(removed, edge[1])
            IN  /\ IF targets # {}
                   THEN \E new_target \in targets :
                           network' = nx_add_edge(removed, edge[1],
                                                  new_target)
                   ELSE network' = removed
                /\ cursor' = cursor + 1
                /\ UNCHANGED pc
       ELSE /\ pc' = "returned"
            /\ UNCHANGED <<network, cursor>>
    /\ UNCHANGED <<ringFrame, node_idx, edges_to_rewire>>

NextRing ==
    \/ RingBegin
    \/ RingNode
    \/ Rewire

SpecRing == InitRing /\ [][NextRing]_vars

(***************************************************************************)
(* Vocabulary of the properties.                                           *)
(***************************************************************************)
RECURSIVE Reach(_, _)
\* The nodes within k hops of the set S.
Reach(S, k) ==
    IF k = 0 THEN S ELSE Reach(S \cup UNION {graph[n] : n \in S}, k - 1)

\* The connected component of the origin.
Component == Reach({origin_node}, total_nodes)

\* Every node is reachable from node 0.
Connected == Reach({0}, total_nodes) = Nodes

\* The count fields of a step record.
Counts(r) == <<r.received_count, r.propagating_count, r.pending_count>>

Trace == [k \in 1 .. Len(steps) |-> Counts(steps[k])]

LastStep == steps[Len(steps)]

Returned == pc = "done"

\* The set of nodes that have the message.
ReceivedSet ==
    IF impl = "viz" THEN {n \in DOMAIN node_states : node_states[n] > 0}
    ELSE received

\* Between rounds: the set of nodes that relay in the next round.
NextWave ==
    IF impl = "viz" THEN Range(propagation_queue) ELSE propagating

\* The rounds (1-based: rounds[k] is round k-1) in which n propagated.
RelayRounds(n) == {k \in 1 .. Len(rounds) : n \in rounds[k].propagating}

\* The rounds in which n was newly informed.
InformRounds(n) == {k \in 1 .. Len(rounds) : n \in rounds[k].informed}

(***************************************************************************)
(* C1. In every trace, received_count never decreases from one record to   *)
(* the next and every record has pending_count = N - received_count.       *)
(***************************************************************************)
C1_ReceivedMonotone ==
    /\ \A k \in 1 .. Len(steps) :
          steps[k].pending_count = total_nodes - steps[k].received_count
    /\ \A k \in 2 .. Len(steps) :
          steps[k - 1].received_count <= steps[k].received_count

C1_Witness ==
    /\ Returned
    /\ Len(steps) >= 3
    /\ steps[1].received_count < steps[2].received_count
    /\ steps[2].received_count = steps[3].received_count
    /\ steps[3].pending_count > 0

(***************************************************************************)
(* C2. If the graph is connected, the returned trace has a last record     *)
(* and that record has received_count = N and pending_count = 0.           *)
(***************************************************************************)
C2_ConnectedFullCoverage ==
    (Returned /\ Connected) =>
        /\ Len(steps) >= 1
        /\ LastStep.received_count = total_nodes
        /\ LastStep.pending_count = 0

\* What does hold of both methods: a connected graph ends with every node
\* received, and a non-empty trace ends with received_count = N.
ConnectedAllReceived ==
    (Returned /\ Connected) =>
        /\ received = Nodes
        /\ (impl = "large" \/ total_nodes >= 2) =>
              /\ Len(steps) >= 1
              /\ LastStep.received_count = total_nodes
              /\ LastStep.pending_count = 0

(***************************************************************************)
(* C3. If the component of the origin has k < N nodes, the simulation      *)
(* ends with a final received_count = k, no node outside the component is  *)
(* ever received, and it cannot stall before returning.  On the two        *)
(* triangles with origin 0 the trace has at most 2 records, ends with      *)
(* received_count = 3, and 3, 4, 5 are never received.                     *)
(***************************************************************************)
C3_ComponentCap ==
    /\ received \subseteq Component
    /\ Cardinality(Component) < total_nodes =>
          /\ Len(steps) <= Cardinality(Component)
          /\ ~Returned => ENABLED Next
          /\ Returned =>
                /\ received = Component
                /\ Len(steps) >= 1
                /\ LastStep.received_count = Cardinality(Component)
    /\ (graph = TwoTriangles /\ origin_node = 0) =>
          /\ received \cap {3, 4, 5} = {}
          /\ Len(steps) <= 2
          /\ Returned => LastStep.received_count = 3

C3_Witness ==
    /\ Returned
    /\ graph = TwoTriangles
    /\ origin_node = 0
    /\ received = {0, 1, 2}
    /\ Len(steps) = 2
    /\ LastStep.pending_count = 3

(***************************************************************************)
(* C4 as claimed.  On the 6-node cycle with origin 0 the returned trace    *)
(* is exactly (3,2,3), (5,2,1), (6,1,0).                                   *)
(***************************************************************************)
C4_CycleTraceAsClaimed ==
    (Returned /\ graph = Cycle6 /\ origin_node = 0) =>
        Trace = << <<3, 2, 3>>, <<5, 2, 1>>, <<6, 1, 0>> >>

(***************************************************************************)
(* C4 amended.  On the 6-node cycle with origin 0,                         *)
(* MessagePropagationSimulator returns exactly 4 records, (3,1,3),         *)
(* (5,2,1), (6,2,0), (6,1,0), and SimpleNetworkAnalyzer returns exactly    *)
(* the first 3 of them: propagating_count is the size of the wave that     *)
(* relayed in the round.                                                   *)
(***************************************************************************)
C4_CycleTrace ==
    (Returned /\ graph = Cycle6 /\ origin_node = 0) =>
        Trace = IF impl = "large"
                THEN << <<3, 1, 3>>, <<5, 2, 1>>, <<6, 2, 0>>, <<6, 1, 0>> >>
                ELSE << <<3, 1, 3>>, <<5, 2, 1>>, <<6, 2, 0>> >>

C4_Witness ==
    /\ Returned
    /\ graph = Cycle6
    /\ origin_node = 0
    /\ impl = "large"
    /\ Len(steps) = 4
    /\ received = Nodes

(***************************************************************************)
(* C5 as claimed.  For every round k >= 1, propagating_count of record k   *)
(* equals received_count[k] - received_count[k-1].                         *)
(***************************************************************************)
C5_WaveIsThisRoundsArrivals ==
    \A k \in 2 .. Len(steps) :
        steps[k].propagating_count =
            steps[k].received_count - steps[k - 1].received_count

(***************************************************************************)
(* C5 amended.  propagating_count of record 0 is 1 (the origin), and for   *)
(* every round k >= 1 propagating_count of record k equals the number of   *)
(* nodes newly informed in round k-1: received_count[k-1] -                *)
(* received_count[k-2], where received_count[-1] is 1 (the origin alone).  *)
(***************************************************************************)
C5_WaveIsPreviousRoundsArrivals ==
    \A k \in 1 .. Len(steps) :
        steps[k].propagating_count =
            IF k = 1 THEN 1
            ELSE IF k = 2 THEN steps[1].received_count - 1
            ELSE steps[k - 1].received_count - steps[k - 2].received_count

C5_Witness ==
    /\ Returned
    /\ Len(steps) >= 3
    /\ steps[3].propagating_count = 2
    /\ steps[3].received_count - steps[2].received_count = 1
    /\ steps[2].received_count - steps[1].received_count = 2

(***************************************************************************)
(* C6.  In the returned run every node that received the message was in    *)
(* the propagating set of exactly one round: round 0 for the origin, and   *)
(* for any other node the round right after the one that informed it.      *)
(***************************************************************************)
C6_RelayExactlyOnce ==
    Returned =>
        \A n \in received :
            /\ Cardinality(RelayRounds(n)) = 1
            /\ RelayRounds(n) = IF n = origin_node
                                THEN {1}
                                ELSE {k + 1 : k \in InformRounds(n)}

\* What does hold of both methods: no node relays twice, and a node relays
\* only in the round right after the one that informed it.  In
\* MessagePropagationSimulator every received node does relay.
RelayAtMostOnce ==
    /\ \A n \in Nodes :
          /\ Cardinality(RelayRounds(n)) <= 1
          /\ Cardinality(InformRounds(n)) <= 1
          /\ RelayRounds(n) \subseteq
                (IF n = origin_node THEN {1}
                 ELSE {k + 1 : k \in InformRounds(n)})
    /\ impl = "large" => C6_RelayExactlyOnce

(***************************************************************************)
(* C7.  In each round the nodes newly informed, which form the next        *)
(* round's propagating set, are exactly the nodes not received when the    *)
(* round began that are adjacent to a currently propagating node; a        *)
(* neighbour already received is added neither to the received set nor to  *)
(* the next propagating set.                                               *)
(***************************************************************************)
C7_NextWave ==
    /\ \A k \in 1 .. Len(rounds) :
          /\ rounds[k].informed =
                {n \in Nodes \ rounds[k].before :
                    \E p \in rounds[k].propagating : n \in graph[p]}
          /\ k < Len(rounds) =>
                rounds[k + 1].propagating = rounds[k].informed
    /\ (pc \in {"while", "done"} /\ Len(rounds) >= 1) =>
          NextWave = rounds[Len(rounds)].informed
    /\ pc = "for" =>
          /\ new_propagating \cap received_before = {}
          /\ ReceivedSet = received_before \cup new_propagating

C7_Witness ==
    \E k \in 2 .. Len(rounds) :
        /\ rounds[k].informed # {}
        /\ \E p \in rounds[k].propagating :
              /\ graph[p] \cap rounds[k].before # {}
              /\ graph[p] \cap rounds[k].informed # {}
        /\ \E p, q \in rounds[k].propagating :
              p # q /\ graph[p] \cap graph[q] \cap rounds[k].informed # {}

(***************************************************************************)
(* C8.  simulate_propagation cannot stall before it returns, and when it   *)
(* returns the propagating set (the next wave) is empty.                   *)
(***************************************************************************)
C8_ReturnsWithEmptyWave ==
    /\ ~Returned => ENABLED Next
    /\ Returned => propagating = {}

\* What does hold of both methods: no stall, and on return the wave is
\* empty or (SimpleNetworkAnalyzer only) every node has received.
ReturnsWhenWaveEmptyOrAllReceived ==
    /\ ~Returned => ENABLED Next
    /\ Returned =>
          \/ propagating = {}
          \/ impl = "simple" /\ Cardinality(received) = total_nodes

\* Under FairSpec: both methods return.
Terminates == <>(pc = "done")

(***************************************************************************)
(* C9.  The number of recorded rounds is at most N, so the safety check    *)
(* `step > total_nodes` never fires and never cuts a trace short.          *)
(***************************************************************************)
C9_RoundsAtMostN ==
    /\ Len(steps) <= total_nodes
    /\ step = Len(steps)
    /\ ~aborted

C9_Witness ==
    /\ Returned
    /\ total_nodes >= 3
    /\ Len(steps) = total_nodes
    /\ ~aborted

(***************************************************************************)
(* C10.  For an origin without neighbours the returned trace is exactly    *)
(* one record, with received_count = 1, propagating_count = 1 and          *)
(* pending_count = N - 1.                                                  *)
(***************************************************************************)
C10_IsolatedOrigin ==
    (Returned /\ graph[origin_node] = {}) =>
        Trace = << <<1, 1, total_nodes - 1>> >>

\* What does hold of both methods: the claim for N >= 2, and for N = 1 in
\* MessagePropagationSimulator.
IsolatedOriginTwoNodes ==
    (Returned /\ graph[origin_node] = {}
        /\ (impl = "large" \/ total_nodes >= 2)) =>
        Trace = << <<1, 1, total_nodes - 1>> >>

(***************************************************************************)
(* C11.  After the builder has passed any number of nodes, no node is its  *)
(* own neighbour, j is listed by i exactly when i is listed by j, and no   *)
(* node lists a neighbour twice.                                           *)
(***************************************************************************)
C11_BuilderInvariants ==
    \A k \in DOMAIN network :
        /\ k \notin Range(network[k])
        /\ \A j \in Range(network[k]) :
               j \in DOMAIN network /\ k \in Range(network[j])
        /\ \A a, b \in 1 .. Len(network[k]) :
               a # b => network[k][a] # network[k][b]

\* Node 0 linked itself to 1 and 2, and the pass of node 1 proposed 0 again.
C11_Witness ==
    /\ impl = "simple"
    /\ pc = "node"
    /\ visited = <<0, 1>>
    /\ Lookup(network, 0) = <<1, 2>>
    /\ 0 \in Range(neighbors)

(***************************************************************************)
(* C12.  Every edge joins two distinct nodes whose distance is at most     *)
(* max_distance, and with max_distance = 0 the graph has no edge.          *)
(***************************************************************************)
C12_EdgesWithinMaxDistance ==
    /\ \A k \in DOMAIN network : \A j \in Range(network[k]) :
           /\ j # k
           /\ calculate_distance(positions[k + 1], positions[j + 1])
                  <= max_distance
    /\ max_distance = 0 =>
           \A k \in DOMAIN network : network[k] = <<>>

\* The first half alone: distinct end points within max_distance.
EdgesWithinRange ==
    \A k \in DOMAIN network : \A j \in Range(network[k]) :
        /\ j # k
        /\ calculate_distance(positions[k + 1], positions[j + 1])
               <= max_distance

\* With max_distance = 0 an edge needs distance_weight = 0.
NoEdgeAtZeroRangeUnlessZeroWeight ==
    (max_distance = 0 /\ distance_weight # 0) =>
        \A k \in DOMAIN network : network[k] = <<>>

(***************************************************************************)
(* C13.  A pass proposes at most connections_per_node neighbours: when     *)
(* more candidates were admitted the proposal is exactly                   *)
(* connections_per_node pairwise distinct admitted candidates; otherwise   *)
(* it is the admitted candidates unchanged.                                *)
(***************************************************************************)
C13_ProposalCut ==
    /\ Len(neighbors) <= connections_per_node
    /\ IF Len(candidates) > connections_per_node
       THEN /\ Len(neighbors) = connections_per_node
            /\ Range(neighbors) \subseteq Range(candidates)
            /\ \A a, b \in 1 .. Len(neighbors) :
                   a # b => neighbors[a] # neighbors[b]
       ELSE neighbors = candidates

\* A pass admitted more candidates than connections_per_node.
C13_Witness ==
    /\ visited # <<>>
    /\ Len(candidates) > connections_per_node
    /\ neighbors # <<>>

(***************************************************************************)
(* C14.  For max_distance > 0 the connection probability does not increase *)
(* with the distance, is 1 at distance 0 and 0 at distance max_distance,   *)
(* so that a candidate at exactly max_distance is never admitted.          *)
(***************************************************************************)
Probability(d) == ConnectionProbability(d, max_distance, distance_weight)

AtLeast(p, q) == p.num * q.den >= q.num * p.den

IsOne(p) == p.den # 0 /\ p.num = p.den

IsZero(p) == p.den # 0 /\ p.num = 0

NonIncreasing ==
    \A d1, d2 \in 0 .. max_distance :
        d1 <= d2 => AtLeast(Probability(d1), Probability(d2))

\* Largest exponent and largest max_distance (in grid units) for which the
\* shape of the probability is tabulated.
MaxWeight == 3

MaxRange == 4

\* The shape for every positive exponent up to MaxWeight and every
\* max_distance up to MaxRange, and the constant 1 for the exponent 0.
ShapeTable ==
    \A m \in 1 .. MaxRange : \A w \in 0 .. MaxWeight :
        /\ \A d1, d2 \in 0 .. m :
               d1 <= d2 => AtLeast(ConnectionProbability(d1, m, w),
                                   ConnectionProbability(d2, m, w))
        /\ IsOne(ConnectionProbability(0, m, w))
        /\ IF w > 0 THEN IsZero(ConnectionProbability(m, m, w))
                    ELSE IsOne(ConnectionProbability(m, m, w))

\* The node of the last pass.
LastPassed == visited[Len(visited)]

\* The nodes at exactly max_distance from the node of the last pass.
AtMaxDistance ==
    {j \in NodeIds(total_nodes) :
        /\ j # LastPassed
        /\ calculate_distance(positions[LastPassed + 1], positions[j + 1])
               = max_distance}

\* As claimed, for every distance_weight.
C14_ProbabilityAsClaimed ==
    max_distance > 0 =>
        /\ NonIncreasing
        /\ IsOne(Probability(0))
        /\ IsZero(Probability(max_distance))
        /\ \A u \in Draws : ~Admits(u, Probability(max_distance))
        /\ visited # <<>> => AtMaxDistance \cap Range(candidates) = {}

\* As the code computes it: pow(0, 0) = 1, so with distance_weight = 0 the
\* probability is 1 at every distance, max_distance included.
C14_ProbabilityShape ==
    /\ pc = "gen" => ShapeTable
    /\ max_distance > 0 =>
        /\ NonIncreasing
        /\ IsOne(Probability(0))
        /\ IF distance_weight > 0
           THEN /\ IsZero(Probability(max_distance))
                /\ \A u \in Draws : ~Admits(u, Probability(max_distance))
                /\ visited # <<>> =>
                       AtMaxDistance \cap Range(candidates) = {}
           ELSE /\ IsOne(Probability(max_distance))
                /\ \A u \in Draws : Admits(u, Probability(max_distance))
                /\ visited # <<>> =>
                       AtMaxDistance \subseteq Range(candidates)

\* A pass met a node at exactly max_distance and a positive weight kept it
\* out.
C14_Witness ==
    /\ visited # <<>>
    /\ max_distance > 0
    /\ distance_weight > 0
    /\ AtMaxDistance # {}
    /\ candidates # <<>>

(***************************************************************************)
(* C15.  Whatever the batch size, the batched loops are an unbatched pass: *)
(* the nodes 0 .. N-1 are passed once each in increasing order, each step  *)
(* of the graph is the pass of the next node of that order, and the        *)
(* builder ends when all of them are passed.                               *)
(***************************************************************************)
\* The builder without batches: `for i in range(n)`.
UnbatchedBegin ==
    /\ visited = <<>>
    /\ visited' = <<>>
    /\ network' = IF impl = "simple" THEN <<>>
                  ELSE [k \in NodeIds(total_nodes) |-> <<>>]

UnbatchedPass ==
    LET i == Len(visited)
    IN  /\ i < total_nodes
        /\ visited' = Append(visited, i)
        /\ \E bern \in [1 .. Len(Nearby(i, positions, max_distance))
                         -> Draws] :
             LET cands == Selected(i, positions, max_distance,
                                   distance_weight, bern)
             IN  \E smp \in [1 .. SampleDraws(cands, connections_per_node)
                              -> Draws] :
                   network' = add_connections(impl, network, i,
                                  Limit(cands, connections_per_node, smp)).net

C15_BatchedIsUnbatched ==
    /\ [][UnbatchedBegin \/ UnbatchedPass]_<<network, visited>>
    /\ [](pc = "built" => Len(visited) = total_nodes)

\* A graph with edges built in two batches, the second one shorter.
C15_Witness ==
    /\ pc = "built"
    /\ batch_size = 2
    /\ visited = <<0, 1, 2>>
    /\ connections_added > 0

(***************************************************************************)
(* C16.  For fixed positions and a fixed seed the passes made in any order *)
(* give the edge set that the order 0 .. n-1 gives.                        *)
(***************************************************************************)
EdgeSet(net) == {{k, j} : <<k, j>> \in
                    {e \in (DOMAIN net) \X NodeIds(total_nodes) :
                        e[2] \in Range(net[e[1]])}}

C16_OrderIndependent ==
    pc = "end" => EdgeSet(network) = EdgeSet(first.network)

\* The same order again does give the same graph.
SameOrderSameGraph ==
    (pc = "end" /\ order = IndexOrder(total_nodes)) =>
        network = first.network

(***************************************************************************)
(* C17.  Two runs of the pipeline with the same arguments and seed return  *)
(* the same graph and the same trace, record for record.                   *)
(***************************************************************************)
\* As claimed: the records are equal in every field.
C17_RunsIdentical ==
    pc = "end" =>
        /\ network = first.network
        /\ graph = first.graph
        /\ steps = first.steps

\* The records are equal in the fields that count nodes; step_time and
\* total_time are readings of the clock.
C17_RunsIdenticalButClock ==
    pc = "end" =>
        /\ positions = first.positions
        /\ network = first.network
        /\ graph = first.graph
        /\ Len(steps) = Len(first.steps)
        /\ \A i \in 1 .. Len(steps) : Counts(steps[i]) = Counts(first.steps[i])

\* Two runs that built an edge and relayed it, with clocks that differ.
C17_Witness ==
    /\ pc = "end"
    /\ connections_added > 0
    /\ Len(steps) >= 1
    /\ steps # first.steps
    /\ Trace = [i \in 1 .. Len(first.steps) |-> Counts(first.steps[i])]

(***************************************************************************)
(* C18.  Any two calls of generate_positions on generators constructed     *)
(* with the same node count and seed return the same coordinates, whatever *)
(* happened in between.                                                    *)
(***************************************************************************)
PositionCalls == {a \in DOMAIN calls : calls[a].op = "positions"}

C18_PositionsDeterministic ==
    \A a, b \in PositionCalls :
        (calls[a].n = calls[b].n /\ calls[a].seed = calls[b].seed) =>
            calls[a].result = calls[b].result

\* The calls made right after the construction of their generator.
FreshCalls == {a \in PositionCalls : calls[a].gen = a - 1}

\* Calls made right after the construction do agree.
FreshCallsAgree ==
    \A a, b \in FreshCalls :
        (calls[a].n = calls[b].n /\ calls[a].seed = calls[b].seed) =>
            calls[a].result = calls[b].result

(***************************************************************************)
(* C19.  Whatever the order in which the pairs (propagating node,          *)
(* neighbour) of a round are visited, the round ends with the same set of  *)
(* newly informed nodes, records the same counts and hands the same set to *)
(* the next round: all three are functions of the state at the start of    *)
(* the round.                                                              *)
(***************************************************************************)
\* The nodes a wave informs, given the nodes that had the message before.
InformedBy(wave, before) == (UNION {graph[n] : n \in wave}) \ before

C19_OrderIndependent ==
    /\ (pc = "for" /\ todo = {}) =>
           /\ new_propagating = InformedBy(propagating, received_before)
           /\ received = received_before \cup new_propagating
    /\ Len(steps) = Len(rounds)
    /\ \A k \in 1 .. Len(rounds) :
           LET wave   == rounds[k].propagating
               before == rounds[k].before
               after  == before \cup InformedBy(wave, before)
           IN  /\ rounds[k].informed = InformedBy(wave, before)
               /\ Counts(steps[k]) = <<Cardinality(after), Cardinality(wave),
                                       total_nodes - Cardinality(after)>>
               /\ IF k < Len(rounds)
                  THEN rounds[k + 1].propagating = InformedBy(wave, before)
                  ELSE pc \in {"while", "done"} =>
                           propagating = InformedBy(wave, before)

\* A recorded round in which two relaying nodes had a pending neighbour in
\* common.
C19_Witness ==
    \E k \in 1 .. Len(rounds) :
        \E nb \in rounds[k].informed :
            Cardinality({n \in rounds[k].propagating : nb \in graph[n]}) >= 2

(***************************************************************************)
(* C20.  analyze_network_properties reports is_connected = true exactly    *)
(* when every one of the N nodes is reachable from node 0; a graph with an *)
(* isolated node and N >= 2 is never reported as connected.                *)
(***************************************************************************)
\* Every one of the N nodes is reachable from node 0.
AllReachable == Visit(network, {0}, total_nodes) = NodeIds(total_nodes)

\* Some node has no neighbour.
HasIsolatedNode ==
    \E k \in NodeIds(total_nodes) : Lookup(network, k) = <<>>

C20_ConnectedIffAllReachable ==
    pc = "analyzed" =>
        /\ properties.is_connected <=> AllReachable
        /\ (total_nodes >= 2 /\ HasIsolatedNode) => ~properties.is_connected

\* The report of the large analyzer, whose graph holds all N nodes.
LargeConnectedIffAllReachable ==
    (pc = "analyzed" /\ impl = "large") =>
        /\ properties.is_connected <=> AllReachable
        /\ (total_nodes >= 2 /\ HasIsolatedNode) => ~properties.is_connected

\* The report of the simple analyzer compares the visited nodes with the
\* keys of the mapping, which are the nodes that have an edge, and node 0.
SimpleConnectedIffKeysReachable ==
    (pc = "analyzed" /\ impl = "simple") =>
        (properties.is_connected <=>
            /\ DOMAIN network # {}
            /\ Visit(network, {0}, total_nodes) = DOMAIN network)

(***************************************************************************)
(* C21.  analyze_network_properties reports number_of_components equal to  *)
(* the number of connected components of the full N-node graph, every      *)
(* isolated node counting as a component of its own.                       *)
(***************************************************************************)
\* The components of the graph on the nodes 0 .. N-1.
ComponentsOfAll ==
    {Visit(network, {k}, total_nodes) : k \in NodeIds(total_nodes)}

C21_ComponentsOfFullGraph ==
    pc = "analyzed" =>
        properties.number_of_components = Cardinality(ComponentsOfAll)

\* The large analyzer counts the components over all N nodes.
LargeComponentsOfFullGraph ==
    (pc = "analyzed" /\ impl = "large") =>
        properties.number_of_components = Cardinality(ComponentsOfAll)

\* The simple analyzer counts the components that hold a key of the mapping.
SimpleComponentsOfKeys ==
    (pc = "analyzed" /\ impl = "simple") =>
        properties.number_of_components =
            Cardinality({C \in ComponentsOfAll : C \cap DOMAIN network # {}})

(***************************************************************************)
(* C22.  The node set of the generated graph is 0 .. N-1 whatever edges    *)
(* were drawn: the reported total_nodes is the configured total_nodes, and *)
(* average_degree and density are computed over N.                         *)
(***************************************************************************)
SameRatio(a, b) == a.num * b.den = b.num * a.den

\* The number of edges of the graph.
EdgeCount == Cardinality(EdgeSet(network))

\* The neighbour list of every node of 0 .. N-1.
AdjacencyLists == [k \in NodeIds(total_nodes) |-> Lookup(network, k)]

C22_NodeSetIsAllNodes ==
    /\ pc = "built" => DOMAIN network = NodeIds(total_nodes)
    /\ pc = "analyzed" =>
          /\ properties.total_nodes = total_nodes
          /\ SameRatio(properties.average_degree,
                       Ratio(2 * EdgeCount, total_nodes))
          /\ SameRatio(properties.density,
                       IF total_nodes > 1
                       THEN Ratio(2 * EdgeCount,
                                  total_nodes * (total_nodes - 1))
                       ELSE Ratio(0, 1))

\* The graph of the large generator holds all N nodes.
LargeNodeSetIsAllNodes ==
    impl = "large" => C22_NodeSetIsAllNodes

\* The simple analyzer reports the number of nodes that have an edge.
SimpleNodeSetIsKeys ==
    (pc = "analyzed" /\ impl = "simple") =>
        properties.total_nodes =
            Cardinality({k \in NodeIds(total_nodes) :
                           Lookup(network, k) # <<>>})

(***************************************************************************)
(* C23.  Whenever average_clustering or average_path_length cannot be      *)
(* measured (the graph is disconnected, or the exact computation fails),   *)
(* analyze_network_properties reports each of them with an explicit        *)
(* undefined value: neither is reported as 0 and neither is left out.      *)
(***************************************************************************)
\* The two averages of the report.
Averages == {"average_clustering", "average_path_length"}

\* A reported value that stands for `undefined`.
IsUndefined(v) == v.den = 0

\* The graph on the nodes 0 .. N-1 is connected.
ConnectedGraph == Cardinality(ComponentsOfAll) = 1

\* The value a successful measurement of the connected graph yields.
Measured(key) ==
    IF key = "average_clustering"
    THEN average_clustering(AdjacencyLists)
    ELSE average_shortest_path_length(AdjacencyLists)

C23_UndefinedIsExplicit ==
    pc = "analyzed" =>
        \A key \in Averages :
            /\ key \in DOMAIN properties
            /\ \/ IsUndefined(properties[key])
               \/ /\ ConnectedGraph
                  /\ SameRatio(properties[key], Measured(key))

\* The large analyzer reports the two averages exactly when the graph is
\* connected, and the simple analyzer never does.
AveragesOnlyWhenLargeAndConnected ==
    pc = "analyzed" =>
        \A key \in Averages :
            key \in DOMAIN properties <=> (impl = "large" /\ ConnectedGraph)

\* A reported average_path_length is the measured value or infinite.
PathLengthMeasuredOrInfinite ==
    (pc = "analyzed" /\ "average_path_length" \in DOMAIN properties) =>
        \/ IsUndefined(properties["average_path_length"])
        \/ SameRatio(properties["average_path_length"],
                     Measured("average_path_length"))

(***************************************************************************)
(* C24.  A non-positive total_nodes or an origin_node outside [0, N) is    *)
(* rejected with an error before any position or edge is generated: no     *)
(* graph is built and no trace record is produced.                         *)
(***************************************************************************)
InvalidConfiguration ==
    total_nodes <= 0 \/ origin_node \notin NodeIds(total_nodes)

C24_InvalidRejected ==
    InvalidConfiguration =>
        /\ pc \in {"new", "positions", "error"}
        /\ positions = <<>>
        /\ network = <<>>
        /\ steps = <<>>

\* What the code does with an origin outside the graph of N >= 1 nodes: the
\* graph is built first; the simple analyzer then records one round when
\* its loop is entered.
OriginOutsideIsSimulated ==
    (pc = "done" /\ total_nodes > 0
        /\ origin_node \notin NodeIds(total_nodes)) =>
        /\ impl = "simple"
        /\ Len(positions) = total_nodes
        /\ Len(steps) = IF total_nodes > 1 THEN 1 ELSE 0

(***************************************************************************)
(* C25.  Once the builder has returned, simulate_propagation and the       *)
(* metric operations leave the adjacency structure unchanged: the same set *)
(* of node keys and the same neighbour list for every node before and      *)
(* after each call.                                                        *)
(***************************************************************************)
\* The builder has returned.
GraphReturned == pc \in {"built", "analyzed"}

C25_AdjacencyReadOnly == [][GraphReturned => network' = network]_vars

\* The calls never change the neighbour list of a node, and the graph of
\* the large generator is not changed at all.
NeighborListsReadOnly ==
    [][GraphReturned =>
          /\ \A k \in NodeIds(total_nodes) :
                 Lookup(network', k) = Lookup(network, k)
          /\ DOMAIN network \subseteq DOMAIN network'
          /\ impl = "large" => network' = network]_vars

(***************************************************************************)
(* C26.  In simulate_message_propagation and in                            *)
(* simulate_propagation_with_timing the state of a node never returns to   *)
(* pending (0) once it has left it.  In simulate_message_propagation a     *)
(* node carries the propagating tag (2) only during the one round in which *)
(* it is a current propagator: it is tagged when the round starts, before  *)
(* any neighbour is informed, and it is back to received (1) when the      *)
(* round ends.                                                             *)
(***************************************************************************)
\* No node goes back to pending in this step.
NoReturnToPending ==
    \A n \in (DOMAIN node_states) \cap (DOMAIN node_states') :
        node_states[n] # 0 => node_states'[n] # 0

\* The nodes that carry the tag 2.
Tagged == {n \in DOMAIN node_states : node_states[n] = 2}

\* The tag is carried by the current propagators of the running round, from
\* its first step to its last, and by no node between the rounds.
TagOnlyInOwnRound ==
    Tagged = IF impl = "viz" /\ pc = "for"
             THEN Range(current_propagators) ELSE {}

\* No node is a propagator of two rounds.
OneRoundEach ==
    \A j, k \in 1 .. Len(rounds) :
        j # k => rounds[j].propagating \cap rounds[k].propagating = {}

C26_TagIsTransient ==
    /\ [][NoReturnToPending]_vars
    /\ [](TagOnlyInOwnRound /\ OneRoundEach)

\* The second round or a later one of simulate_message_propagation is under
\* way: its propagators are tagged, the first of them has informed a
\* neighbour, and the propagators of the rounds before are back to 1.
C26_Witness ==
    /\ impl = "viz"
    /\ pc = "for"
    /\ rounds # <<>>
    /\ cursor > 1
    /\ new_propagating # {}
    /\ Tagged # {}
    /\ \A k \in 1 .. Len(rounds) :
           \A n \in rounds[k].propagating : node_states[n] = 1

(***************************************************************************)
(* C27.  When the loop of simulate_message_propagation ends, all nodes     *)
(* have received the message: in the final record appended after the loop  *)
(* total_received (N) and total_pending (0) are the numbers of non-pending *)
(* and of pending entries of the record's own node_states, for every graph *)
(* and origin.                                                             *)
(***************************************************************************)
\* The record appended after the loop.
FinalOfViz == propagation_steps[Len(propagation_steps)]

\* The counts of a record are those of its node_states.
CountsOwnStates(r) ==
    /\ r.total_received = TotalReceived(r.node_states)
    /\ r.total_pending = TotalPending(r.node_states)

C27_FinalRecordCountsOwnStates ==
    (impl = "viz" /\ pc = "done") =>
        /\ TotalPending(node_states) = 0
        /\ CountsOwnStates(FinalOfViz)

\* The final record is right when the origin reaches every node, and the
\* records of the rounds are right on every graph.
FinalRecordRightIfAllReached ==
    impl = "viz" =>
        /\ \A k \in 1 .. Len(propagation_steps) :
               (pc # "done" \/ k < Len(propagation_steps)) =>
                   CountsOwnStates(propagation_steps[k])
        /\ (pc = "done" /\ Component = Nodes) => CountsOwnStates(FinalOfViz)

\* The final record counts N received whatever its node_states hold.
FinalRecordCountsAll ==
    (impl = "viz" /\ pc = "done") =>
        /\ FinalOfViz.total_received = total_nodes
        /\ FinalOfViz.total_pending = 0
        /\ TotalReceived(FinalOfViz.node_states) = Cardinality(Component)

(***************************************************************************)
(* C28.  On the same graph and the same origin,                            *)
(* MessagePropagationSimulator.simulate_propagation and                    *)
(* SimpleNetworkAnalyzer.simulate_propagation return traces with the same  *)
(* number of records and the same (step, received_count,                   *)
(* propagating_count, pending_count) in every record.                      *)
(***************************************************************************)
\* The graph of the run as a mapping from node to neighbour list.
GraphAsLists ==
    [k \in Nodes |-> CHOOSE q \in Orders(graph[k]) : TRUE]

\* (step, received_count, propagating_count, pending_count) of the records.
StepAndCounts(trace) ==
    [k \in 1 .. Len(trace) |->
        <<trace[k].step, trace[k].received_count,
          trace[k].propagating_count, trace[k].pending_count>>]

\* What the method of `im` returns on the graph and the origin of the run.
TraceOf(im) ==
    StepAndCounts(simulate_propagation(im, GraphAsLists, total_nodes,
                                       origin_node).steps)

\* The method that is not running.
TheOther == IF impl = "large" THEN "simple" ELSE "large"

C28_SameTrace ==
    pc = "done" => StepAndCounts(steps) = TraceOf(TheOther)

\* The trace the run returned is the trace of its method.
RunReturnsItsTrace ==
    pc = "done" => StepAndCounts(steps) = TraceOf(impl)

\* The trace of the simple analyzer is the trace of the large simulator
\* without its last records.
SimpleTraceIsPrefix ==
    pc = "done" =>
        /\ Len(TraceOf("simple")) <= Len(TraceOf("large"))
        /\ \A k \in 1 .. Len(TraceOf("simple")) :
               TraceOf("simple")[k] = TraceOf("large")[k]

(***************************************************************************)
(* C29.  In every trace of MessagePropagationSimulator.simulate_propagation *)
(* the propagating set of round k is the set of nodes at hop distance k    *)
(* from the origin, received_count of record k is the number of nodes      *)
(* within hop distance k + 1, and the number of records is the origin's    *)
(* eccentricity within its component plus one.                             *)
(***************************************************************************)
\* The nodes within k hops of the origin.
WithinHops(k) == Reach({origin_node}, k)

\* The nodes at exactly k hops from the origin.
AtHops(k) == IF k = 0 THEN {origin_node}
             ELSE WithinHops(k) \ WithinHops(k - 1)

\* The largest hop distance from the origin to a node of its component.
Eccentricity ==
    CHOOSE k \in 0 .. total_nodes :
        /\ WithinHops(k) = Component
        /\ \A j \in 0 .. (k - 1) : WithinHops(j) # Component

C29_WavesAreHopLayers ==
    impl = "large" =>
        /\ \A k \in 1 .. Len(rounds) :
               /\ rounds[k].propagating = AtHops(k - 1)
               /\ steps[k].step = k - 1
               /\ steps[k].received_count = Cardinality(WithinHops(k))
        /\ pc \in {"while", "for"} => propagating = AtHops(step)
        /\ pc = "done" => Len(steps) = Eccentricity + 1

\* A returned trace of the large simulator from an origin with nodes two
\* hops away and with nodes it cannot reach.
C29_Witness ==
    /\ impl = "large"
    /\ pc = "done"
    /\ Eccentricity >= 2
    /\ Component # Nodes
    /\ Len(steps) = Eccentricity + 1

(***************************************************************************)
(* C30.  generate_network (ring lattice, then random rewiring) never       *)
(* returns a graph with a self-loop, for every total_nodes >= 1 and every  *)
(* connections_per_node >= 0, also when connections_per_node // 2 is       *)
(* total_nodes or more.                                                    *)
(***************************************************************************)
\* The nodes that are their own neighbour.
SelfLoops == {n \in DOMAIN network : n \in Range(network[n])}

C30_NoSelfLoop == pc = "returned" => SelfLoops = {}

\* With fewer than total_nodes neighbours on each side of the ring no
\* self-loop is ever made, and the rewiring makes none in any case.
NoSelfLoopInShortRing ==
    (pc \in {"lattice", "rewire", "returned"}
        /\ connections_per_node \div 2 < total_nodes) => SelfLoops = {}

\* With total_nodes or more neighbours on each side the lattice has a
\* self-loop at every node, and the returned graph has those that were not
\* drawn for rewiring.
SelfLoopsOfLongRing ==
    (pc \in {"rewire", "returned"}
        /\ connections_per_node \div 2 >= total_nodes) =>
        SelfLoops = NodeIds(total_nodes)
                        \ {edges_to_rewire[t][1] :
                              t \in {x \in 1 .. Min2(cursor - 1,
                                                     Len(edges_to_rewire)) :
                                       edges_to_rewire[x][1]
                                           = edges_to_rewire[x][2]}}

====
